---- MODULE Spec2Model ----
(***************************************************************************)
(* A model of ccp, the OpenAI-compatible proxy in front of the Claude CLI:  *)
(* the working-directory gate and request handler (completions.ts), the    *)
(* session store (session.ts) and the stream translator of both response   *)
(* modes.                                                                   *)
(*                                                                          *)
(* Strings are sequences of one-character strings, so that trim,            *)
(* startsWith, includes, concatenation and path normalisation are computed  *)
(* the way the code computes them.  A few multi-byte code points (the       *)
(* marker emoji) are written as one element each: "{check}", "{folder}",   *)
(* "{cross}".                                                               *)
(***************************************************************************)
EXTENDS Integers, Sequences, FiniteSets, TLC

\* null for string-valued results (no real string holds this element).
NULL == <<"{null}">>
\* null for a session id.
NoSession == "null"

(* ------------------------------------------------------------------ *)
(* String helpers (JavaScript String.prototype)                        *)
(* ------------------------------------------------------------------ *)

startsWith(s, prefix) ==
    /\ Len(s) >= Len(prefix)
    /\ SubSeq(s, 1, Len(prefix)) = prefix

includes(s, needle) ==
    \E i \in 1..(Len(s) - Len(needle) + 1) : SubSeq(s, i, i + Len(needle) - 1) = needle

IsSpace(c) == c \in {" ", "\n"}

RECURSIVE trimStart(_)
trimStart(s) ==
    IF s # <<>> /\ IsSpace(Head(s)) THEN trimStart(Tail(s)) ELSE s

RECURSIVE trimEnd(_)
trimEnd(s) ==
    IF s # <<>> /\ IsSpace(s[Len(s)]) THEN trimEnd(SubSeq(s, 1, Len(s) - 1)) ELSE s

trim(s) == trimEnd(trimStart(s))

(* s.split(sep) for a one-character separator: the sequence of pieces. *)
RECURSIVE split(_, _)
split(s, sep) ==
    IF \A i \in 1..Len(s) : s[i] # sep
    THEN <<s>>
    ELSE LET k == CHOOSE i \in 1..Len(s) :
                      s[i] = sep /\ \A j \in 1..(i - 1) : s[j] # sep
         IN  <<SubSeq(s, 1, k - 1)>> \o split(SubSeq(s, k + 1, Len(s)), sep)

(* pieces.join(sep) *)
RECURSIVE join(_, _)
join(pieces, sep) ==
    IF pieces = <<>> THEN <<>>
    ELSE IF Len(pieces) = 1 THEN pieces[1]
    ELSE pieces[1] \o sep \o join(Tail(pieces), sep)

(* ------------------------------------------------------------------ *)
(* The file system and environment the proxy runs in                   *)
(* ------------------------------------------------------------------ *)

Home == <<"/", "h">>                       \* process.env.HOME
ProcessCwd == <<"/", "w">>                 \* process.cwd()
claudeWorkingDir == ProcessCwd             \* config.claudeWorkingDir

TmpDir == <<"/", "t">>
SrvDir == <<"/", "s">>
ProcDir == <<"/", "p", "r", "o", "c">>
DevxDir == <<"/", "d", "e", "v", "x">>
FilePath == <<"/", "f">>
LinkPath == <<"/", "l">>
ProcLink == <<"/", "k">>

\* Directories that exist (real paths).
Dirs == {<<"/">>, Home, ProcessCwd, TmpDir, SrvDir, ProcDir, DevxDir}
\* Regular files that exist.
Files == {FilePath}
\* Symbolic links: path of the link -> its real target.
Symlinks == [p \in {LinkPath, ProcLink} |-> IF p = LinkPath THEN SrvDir ELSE ProcDir]

existsSync(p) == p \in Dirs \/ p \in Files \/ p \in DOMAIN Symlinks
realpathSync(p) == IF p \in DOMAIN Symlinks THEN Symlinks[p] ELSE p

isValidDirectory(p) == existsSync(p) /\ realpathSync(p) \in Dirs

(* path.resolve(path.normalize(p)) on POSIX: make absolute, drop empty and *)
(* "." segments, let ".." remove the segment before it, no trailing slash.  *)
RECURSIVE foldSegments(_, _)
foldSegments(segs, acc) ==
    IF segs = <<>> THEN acc
    ELSE LET seg == Head(segs) IN
         IF seg = <<>> \/ seg = <<".">> THEN foldSegments(Tail(segs), acc)
         ELSE IF seg = <<".", ".">>
              THEN foldSegments(Tail(segs),
                                IF acc = <<>> THEN acc ELSE SubSeq(acc, 1, Len(acc) - 1))
              ELSE foldSegments(Tail(segs), Append(acc, seg))

resolveNormalize(p) ==
    LET abs == IF startsWith(p, <<"/">>) THEN p ELSE ProcessCwd \o <<"/">> \o p
    IN  <<"/">> \o join(foldSegments(split(abs, "/"), <<>>), <<"/">>)

blockedPrefixes == {ProcDir, <<"/", "s", "y", "s">>, <<"/", "d", "e", "v">>}

(* resolvePath(text): NULL, or the resolved real path. *)
resolvePath(text) ==
    IF ~(startsWith(text, <<"~">>) \/ startsWith(text, <<"/">>)) THEN NULL
    ELSE LET raw == IF startsWith(text, <<"~">>) THEN Home \o Tail(text) ELSE text
             resolved == resolveNormalize(raw)
         IN  IF \E prefix \in blockedPrefixes : startsWith(resolved, prefix) THEN NULL
             ELSE IF existsSync(resolved) THEN realpathSync(resolved)
             ELSE resolved

(* ------------------------------------------------------------------ *)
(* Messages (types.ts OAIMessage) and their text                       *)
(* ------------------------------------------------------------------ *)

Str(t) == [kind |-> "string", text |-> t, parts |-> <<>>]
Parts(ps) == [kind |-> "parts", text |-> <<>>, parts |-> ps]
TextPart(t) == [type |-> "text", text |-> t, url |-> <<>>]
ImagePart(u) == [type |-> "image_url", text |-> <<>>, url |-> u]

Msg(r, c) == [role |-> r, content |-> c]
User(t) == Msg("user", Str(t))
Assistant(t) == Msg("assistant", Str(t))
System(t) == Msg("system", Str(t))

RECURSIVE textsOf(_)
textsOf(ps) ==
    IF ps = <<>> THEN <<>>
    ELSE IF Head(ps).type = "text" /\ Head(ps).text # <<>>
         THEN <<Head(ps).text>> \o textsOf(Tail(ps))
         ELSE textsOf(Tail(ps))

getTextContent(content) ==
    IF content.kind = "string" THEN content.text
    ELSE join(textsOf(content.parts), <<"\n">>)

(* ------------------------------------------------------------------ *)
(* Session store (session.ts)                                          *)
(* ------------------------------------------------------------------ *)

RECURSIVE escapeJSON(_)
escapeJSON(t) ==
    IF t = <<>> THEN <<>>
    ELSE (IF Head(t) = "\"" THEN <<"\\", "\"">>
          ELSE IF Head(t) = "\\" THEN <<"\\", "\\">>
          ELSE IF Head(t) = "\n" THEN <<"\\", "n">>
          ELSE <<Head(t)>>) \o escapeJSON(Tail(t))

quoteJSON(t) == <<"\"">> \o escapeJSON(t) \o <<"\"">>

stringifyPart(p) ==
    IF p.type = "text"
    THEN <<"{\"type\":\"text\",\"text\":">> \o quoteJSON(p.text) \o <<"}">>
    ELSE <<"{\"type\":\"image_url\",\"image_url\":{\"url\":">> \o quoteJSON(p.url) \o <<"}}">>

RECURSIVE stringifyList(_, _)
stringifyList(items, sep) ==
    IF items = <<>> THEN <<>>
    ELSE IF Len(items) = 1 THEN items[1]
    ELSE items[1] \o sep \o stringifyList(Tail(items), sep)

\* Variant: the content serialized as its text. C18 does not hold of it.
stringifyTextOf(c) == quoteJSON(getTextContent(c))
stringifyContent(c) ==
    IF c.kind = "string" THEN quoteJSON(c.text)
    ELSE <<"[">> \o stringifyList([i \in 1..Len(c.parts) |-> stringifyPart(c.parts[i])], <<",">>)
               \o <<"]">>

stringifyMessage(m) ==
    <<"{\"role\":", "\"", m.role, "\"", ",\"content\":">> \o stringifyContent(m.content) \o <<"}">>

(* JSON.stringify(messages) *)
stringifyMessages(messages) ==
    <<"[">> \o stringifyList([i \in 1..Len(messages) |-> stringifyMessage(messages[i])], <<",">>)
          \o <<"]">>

(* createHash("sha256").update(payload).digest("hex"): the digest is taken  *)
(* to be collision-free, so it is represented by the payload it digests.    *)
sha256(payload) == payload

\* Variant: a key made of the last message only. C6 does not hold of it.
hashLastMessage(messages) == sha256(stringifyMessage(messages[Len(messages)]))
hashMessages(messages) == sha256(stringifyMessages(messages))

\* new Map()
EmptyMap == [k \in {} |-> 0]
\* One entry of the map: SessionEntry { sessionId, createdAt }.
SessionEntry(sid, t) == [sessionId |-> sid, createdAt |-> t]

lookupSession(sess, contextMessages) ==
    IF Len(contextMessages) = 0 THEN NoSession
    ELSE LET hash == hashMessages(contextMessages)
         IN  IF hash \in DOMAIN sess THEN sess[hash].sessionId ELSE NoSession

\* Variant: a hit renews the entry's timestamp. C31 does not hold of it.
sessionsTouchedByLookup(sess, contextMessages, t) ==
    IF lookupSession(sess, contextMessages) = NoSession THEN sess
    ELSE [sess EXCEPT ![hashMessages(contextMessages)].createdAt = t]
\* The table after lookupSession has run: sessions.get(hash) and the two returns
\* are all it does; it calls neither set nor delete and never assigns dirty.
sessionsAfterLookup(sess, contextMessages, t) == sess

\* Variant: an entry that exists keeps its timestamp. C32 does not hold of it.
storeSessionKeepingTime(sess, contextMessages, sid, t) ==
    LET hash == hashMessages(contextMessages)
    IN  [k \in DOMAIN sess \cup {hash} |->
            IF k = hash
            THEN SessionEntry(sid, IF hash \in DOMAIN sess THEN sess[hash].createdAt ELSE t)
            ELSE sess[k]]
\* sessions.set(hash, { sessionId, createdAt: Date.now() })
storeSession(sess, contextMessages, sid, t) ==
    LET hash == hashMessages(contextMessages)
    IN  [k \in DOMAIN sess \cup {hash} |->
            IF k = hash THEN SessionEntry(sid, t) ELSE sess[k]]

(* JSON.stringify(obj) of the table as its tokens: the braces, one member per  *)
(* entry ("hash":{"sessionId":..,"createdAt":..}), commas between the members. *)
LBrace == [t |-> "{"]
RBrace == [t |-> "}"]
Comma == [t |-> ","]
Member(hash, entry) == [t |-> "member", key |-> hash, value |-> entry]

\* for (const [hash, entry] of sessions) obj[hash] = entry, in the order of the map
RECURSIVE membersOf(_)
membersOf(sess) ==
    IF DOMAIN sess = {} THEN <<>>
    ELSE LET hash == CHOOSE h \in DOMAIN sess : TRUE
         IN  <<<<Member(hash, sess[hash])>>>>
                 \o membersOf([h \in DOMAIN sess \ {hash} |-> sess[h]])

stringifyTable(sess) == <<LBrace>> \o stringifyList(membersOf(sess), <<Comma>>) \o <<RBrace>>

\* JSON.parse throws (SyntaxError).
ParseError == [ok |-> FALSE, value |-> EmptyMap]

\* The members of an object, after its opening brace.
RECURSIVE parseMembers(_, _)
parseMembers(toks, acc) ==
    IF toks[1].t # "member" THEN ParseError
    ELSE LET m == toks[1]
             obj == [h \in DOMAIN acc \cup {m.key} |-> IF h = m.key THEN m.value ELSE acc[h]]
         IN  IF Len(toks) = 1 THEN [ok |-> TRUE, value |-> obj]
             ELSE IF toks[2].t = "," /\ Len(toks) >= 3
                  THEN parseMembers(SubSeq(toks, 3, Len(toks)), obj)
                  ELSE ParseError

\* JSON.parse(readFileSync(filePath, "utf-8"))
parseTable(text) ==
    IF Len(text) < 2 THEN ParseError
    ELSE IF text[1].t # "{" \/ text[Len(text)].t # "}" THEN ParseError
    ELSE IF Len(text) = 2 THEN [ok |-> TRUE, value |-> EmptyMap]
    ELSE parseMembers(SubSeq(text, 2, Len(text) - 1), EmptyMap)

\* Variant: a start that reads nothing. C20 does not hold of it.
restoreNothing(sess, f) == sess
\* initSessionPersistence, "Restore sessions from disk": every entry of the file is
\* set in the map; a file that is not there or does not parse leaves the map alone.
restoreSessions(sess, f) ==
    IF f.kind = "missing" THEN sess
    ELSE LET data == parseTable(f.text)
         IN  IF data.ok
             THEN [h \in DOMAIN sess \cup DOMAIN data.value |->
                      IF h \in DOMAIN data.value THEN data.value[h] ELSE sess[h]]
             ELSE sess

\* writeFileSync(persistPath, text): "ok"; "denied", the file cannot be opened and
\* stays as it is; "partial", the write fails after n tokens.
writeFileSync(f, text, outcome, n) ==
    IF outcome = "ok" THEN [kind |-> "written", text |-> text]
    ELSE IF outcome = "denied" THEN f
    ELSE [kind |-> "truncated", text |-> SubSeq(text, 1, n)]

\* Variant: the flag is cleared whatever the write did. C19 does not hold of it.
dirtyCleared(d, outcome) == FALSE
\* flushSessions: "dirty = false" follows writeFileSync inside the try.
dirtyAfterFlush(d, outcome) == IF outcome = "ok" THEN FALSE ELSE d

\* Variant: a sweep leaves the flag as it finds it. C37 does not hold of it.
dirtyKept(d, before, after) == d
\* cleanupSessions: if (removed > 0) dirty = true
dirtyAfterCleanup(d, before, after) == d \/ DOMAIN after # DOMAIN before

\* Variant: an entry expires as soon as its age reaches the TTL. C7 does not hold of it.
isExpiredAtTtl(entry, ttlMs, t) == t - entry.createdAt >= ttlMs
\* The test of cleanupSessions: now - entry.createdAt > ttlMs
isExpired(entry, ttlMs, t) == t - entry.createdAt > ttlMs

\* The loop of cleanupSessions over the entries of the map, one delete at a time.
RECURSIVE cleanupLoop(_, _, _, _)
cleanupLoop(sess, keys, ttlMs, t) ==
    IF keys = {} THEN sess
    ELSE LET hash == CHOOSE k \in keys : TRUE
             kept == IF isExpired(sess[hash], ttlMs, t)
                     THEN [k \in DOMAIN sess \ {hash} |-> sess[k]]
                     ELSE sess
         IN  cleanupLoop(kept, keys \ {hash}, ttlMs, t)

cleanupSessions(sess, ttlMs, t) == cleanupLoop(sess, DOMAIN sess, ttlMs, t)

(* ------------------------------------------------------------------ *)
(* Working-directory gate (completions.ts, handleChatCompletions)      *)
(* ------------------------------------------------------------------ *)

CheckMark == "{check}"
FolderMark == "{folder}"
CrossMark == "{cross}"

\* The three synthetic texts, shortened after their marker.
PATH_PROMPT == <<FolderMark, " ", "P", "a", "t", "h", "?">>
PATH_INVALID == <<CrossMark, " ", "I", "n", "v", "a", "l", "i", "d">>
PATH_CONFIRMED(p) == <<CheckMark, " ", "<">> \o p \o <<">">>

IsSystem(m) == m.role = "system"
NotSystem(m) == m.role # "system"
IsUser(m) == m.role = "user"

userAssistantMessages(messages) == SelectSeq(messages, NotSystem)

\* The body of the scan loop for index i: a valid directory text ...
isValidPathMessage(ua, i) ==
    /\ ua[i].role = "user"
    /\ LET resolved == resolvePath(trim(getTextContent(ua[i].content)))
       IN  resolved # NULL /\ isValidDirectory(resolved)

\* Variant: followed by any message. C3 does not hold of it.
hasAnyNext(ua, i) == i + 1 <= Len(ua)
\* ... followed by an assistant message.
hasAssistantNext(ua, i) ==
    i + 1 <= Len(ua) /\ ua[i + 1].role = "assistant"

\* for (i = 0; ...) { ...; break }: the first confirmed index from i on, 0 if none.
RECURSIVE scanConfirmed(_, _)
scanConfirmed(ua, i) ==
    IF i > Len(ua) THEN 0
    ELSE IF isValidPathMessage(ua, i) /\ hasAssistantNext(ua, i) THEN i
    ELSE scanConfirmed(ua, i + 1)

pathUserIdx(messages) == scanConfirmed(userAssistantMessages(messages), 1)

confirmedPath(messages) ==
    LET ua == userAssistantMessages(messages)
        i == pathUserIdx(messages)
    IN  IF i = 0 THEN NULL ELSE resolvePath(trim(getTextContent(ua[i].content)))

lastUserText(messages) ==
    LET userMessages == SelectSeq(userAssistantMessages(messages), IsUser)
    IN  IF userMessages = <<>> THEN <<>>
        ELSE trim(getTextContent(userMessages[Len(userMessages)].content))

isSyntheticText(t) ==
    \/ startsWith(t, <<CheckMark>>)
    \/ startsWith(t, <<FolderMark>>)
    \/ startsWith(t, <<CrossMark>>)

\* Variant: any assistant message counts, synthetic or not. C2 does not hold of it.
hasAnyAssistantResponse(messages) ==
    \E i \in 1..Len(messages) : messages[i].role = "assistant"
hasRealAssistantResponse(messages) ==
    LET ua == userAssistantMessages(messages)
    IN  \E i \in 1..Len(ua) :
            ua[i].role = "assistant" /\ ~isSyntheticText(getTextContent(ua[i].content))

\* The synthetic reply of a new conversation, from the last user text.
fakeContent(messages) ==
    LET resolved == resolvePath(lastUserText(messages))
    IN  IF resolved # NULL /\ isValidDirectory(resolved) THEN PATH_CONFIRMED(resolved)
        ELSE IF resolved # NULL THEN PATH_INVALID
        ELSE PATH_PROMPT

RECURSIVE dropPair(_, _, _)
dropPair(ua, i, skip) ==
    IF i > Len(ua) THEN <<>>
    ELSE IF i = skip \/ i = skip + 1 THEN dropPair(ua, i + 1, skip)
    ELSE <<ua[i]>> \o dropPair(ua, i + 1, skip)

\* claudeMessages of the Resume path: system messages, then the rest without the pair.
strippedMessages(messages) ==
    SelectSeq(messages, IsSystem)
        \o dropPair(userAssistantMessages(messages), 1, pathUserIdx(messages))

\* Variant: the whole list. C1 does not hold of it.
butNone(messages) == messages
\* messages.slice(0, -1)
butLast(messages) == SubSeq(messages, 1, Len(messages) - 1)

(* ------------------------------------------------------------------ *)
(* Agent events (types.ts ClaudeStreamLine) and response frames        *)
(* ------------------------------------------------------------------ *)

NoStop == "null"

Event(type, etype, dtype, text, stop, inTok, outTok, sid, isErr, result) ==
    [type |-> type, etype |-> etype, dtype |-> dtype, text |-> text, stop_reason |-> stop,
     input_tokens |-> inTok, output_tokens |-> outTok,
     session_id |-> sid, is_error |-> isErr, result |-> result]

MessageStart(inTok, outTok) ==
    Event("stream_event", "message_start", "", <<>>, NoStop, inTok, outTok, "", FALSE, <<>>)
MessageDelta(stop, outTok) ==
    Event("stream_event", "message_delta", "", <<>>, stop, 0, outTok, "", FALSE, <<>>)
TextDelta(text) ==
    Event("stream_event", "content_block_delta", "text_delta", text, NoStop, 0, 0, "", FALSE, <<>>)
JsonDelta(text) ==
    Event("stream_event", "content_block_delta", "input_json_delta", text, NoStop, 0, 0, "", FALSE, <<>>)
BlockStop ==
    Event("stream_event", "content_block_stop", "", <<>>, NoStop, 0, 0, "", FALSE, <<>>)
ResultEvent(sid, isErr, result) ==
    Event("result", "", "", <<>>, NoStop, 0, 0, sid, isErr, result)
SystemEvent ==
    Event("system", "", "", <<>>, NoStop, 0, 0, "S0", FALSE, <<>>)
AssistantEvent(text) ==
    Event("assistant", "", "", text, NoStop, 0, 0, "S0", FALSE, <<>>)

ZeroUsage == [prompt_tokens |-> 0, completion_tokens |-> 0, total_tokens |-> 0]

\* A streamed frame. usage is {} (null or absent) or {u}.
Chunk(delta, content, finish, usageSet) ==
    [delta |-> delta, content |-> content, finish_reason |-> finish, usage |-> usageSet]
RoleChunk == Chunk("role", <<>>, "null", {})
ContentChunk(t) == Chunk("content", t, "null", {})
StopChunk(usageSet) == Chunk("empty", <<>>, "stop", usageSet)
DoneFrame == Chunk("[DONE]", <<>>, "null", {})

\* A non-streaming body. usage is {} (absent) or {u}.
Completion(content, finish, usageSet) ==
    [content |-> content, finish_reason |-> finish, usage |-> usageSet]

NoResponse == [status |-> 0, body |-> {}, chunks |-> <<>>, ended |-> FALSE]

ErrorPrefix == <<"E", "r", "r", "o", "r", ":", " ">>
ErrorTag == <<"[", "E", "r", "r", "o", "r", ":">>
errorAnnotation(result) == <<"\n", "\n">> \o ErrorTag \o <<" ">> \o result \o <<"]">>

(* ------------------------------------------------------------------ *)
(* Stream translator (completions.ts), one event at a time             *)
(* ------------------------------------------------------------------ *)

\* Variant: message_delta adds to the completion count. C10 does not hold of it.
usageAdding(u, e) ==
    IF e.type = "stream_event" /\ e.etype \in {"message_start", "message_delta"}
    THEN [u EXCEPT !.prompt_tokens = @ + e.input_tokens,
                   !.completion_tokens = @ + e.output_tokens]
    ELSE u
\* "Capture usage from message_start" and "from message_delta".
usageAfter(u, e) ==
    IF e.type = "stream_event" /\ e.etype = "message_start"
    THEN [u EXCEPT !.prompt_tokens = @ + e.input_tokens,
                   !.completion_tokens = @ + e.output_tokens]
    ELSE IF e.type = "stream_event" /\ e.etype = "message_delta" /\ e.output_tokens # 0
    THEN [u EXCEPT !.completion_tokens = e.output_tokens]
    ELSE u

isTextDelta(e) ==
    /\ e.type = "stream_event"
    /\ e.etype = "content_block_delta"
    /\ e.dtype = "text_delta"
    /\ e.text # <<>>

isStopDelta(e) ==
    /\ e.type = "stream_event"
    /\ e.etype = "message_delta"
    /\ e.stop_reason # NoStop

isErrorResult(e) == e.type = "result" /\ e.is_error /\ e.result # <<>>

withTotal(u) == [u EXCEPT !.total_tokens = u.prompt_tokens + u.completion_tokens]

\* usage: usage.total_tokens > 0 ? usage : null
usageBlock(u) == IF u.total_tokens > 0 THEN {u} ELSE {}

\* Variant: only max_tokens gives "length". C9 does not hold of it.
finishOfMaxTokens(stop) == IF stop = "max_tokens" THEN "length" ELSE "stop"
\* finishReason = stop_reason === "end_turn" ? "stop" : "length"
finishOf(stop) == IF stop = "end_turn" THEN "stop" ELSE "length"

\* Variant: a fragment replaces the content. C8 does not hold of it.
contentReplaced(content, e) ==
    IF isTextDelta(e) THEN e.text
    ELSE IF isErrorResult(e) THEN e.result
    ELSE content
\* assistantContent after one event, non-streaming loop.
contentAfterNonStreaming(content, e) ==
    IF isTextDelta(e) THEN content \o e.text
    ELSE IF isErrorResult(e) THEN e.result
    ELSE content

\* assistantContent after one event, streaming loop.
contentAfterStreaming(content, e) ==
    IF isTextDelta(e) THEN content \o e.text
    ELSE IF isErrorResult(e) THEN content \o errorAnnotation(e.result)
    ELSE content

\* The frames one event writes in the streaming loop; u is the usage after the event.
chunksOfEvent(e, u) ==
    IF isTextDelta(e) THEN <<ContentChunk(e.text)>>
    ELSE IF isStopDelta(e) THEN <<StopChunk(usageBlock(withTotal(u)))>>
    ELSE IF isErrorResult(e) THEN <<ContentChunk(errorAnnotation(e.result))>>
    ELSE <<>>

\* Variant: the stderr text as it came. C11 does not hold of it.
stderrFallbackUntrimmed(content, err) ==
    IF content = <<>> /\ err # <<>> THEN ErrorPrefix \o err ELSE content
\* "If no content was generated and stderr has output"
stderrFallback(content, err) ==
    IF content = <<>> /\ err # <<>> THEN ErrorPrefix \o trim(err) ELSE content

\* "Send stop chunk if not already sent"
needsStopChunk(content) ==
    ~includes(content, ErrorTag) \/ startsWith(content, <<"E", "r", "r", "o", "r", ":">>)

(* ------------------------------------------------------------------ *)
(* Line parser (claude-cli.ts, parseStreamLines)                       *)
(* ------------------------------------------------------------------ *)

\* The bytes of a two-byte UTF-8 character, the character, and U+FFFD.
LeadByte == "{C3}"
ContinuationByte == "{A9}"
TwoByteChar == "{e-acute}"
ReplacementChar == "{U+FFFD}"

\* Buffer.toString(): UTF-8 decoding of one buffer on its own; a byte that is not part
\* of a complete character in this buffer becomes U+FFFD.
RECURSIVE toString(_)
toString(bytes) ==
    IF bytes = <<>> THEN <<>>
    ELSE IF Head(bytes) = LeadByte
         THEN IF Len(bytes) >= 2 /\ bytes[2] = ContinuationByte
              THEN <<TwoByteChar>> \o toString(SubSeq(bytes, 3, Len(bytes)))
              ELSE <<ReplacementChar>> \o toString(Tail(bytes))
    ELSE IF Head(bytes) = ContinuationByte
         THEN <<ReplacementChar>> \o toString(Tail(bytes))
    ELSE <<Head(bytes)>> \o toString(Tail(bytes))

\* JSON.parse(line) for the lines of the agent: an object is "{", its body and "}",
\* the event is the body; anything else throws.
parseLine(line) ==
    IF /\ Len(line) >= 2
       /\ line[1] = "{"
       /\ line[Len(line)] = "}"
       /\ \A i \in 2..(Len(line) - 1) : line[i] \notin {"{", "}"}
    THEN [ok |-> TRUE, value |-> SubSeq(line, 2, Len(line) - 1)]
    ELSE [ok |-> FALSE, value |-> <<>>]

\* try { yield JSON.parse(line) } catch { }, for a trimmed line; nothing for an empty one
yieldOf(line) ==
    IF line = <<>> THEN <<>>
    ELSE IF parseLine(line).ok THEN <<parseLine(line).value>>
    ELSE <<>>

\* while ((newlineIdx = buffer.indexOf("\n")) !== -1) { ... }: the events of the
\* complete lines of the buffer, and what is left of the buffer.
RECURSIVE drainLines(_, _)
drainLines(buffer, events) ==
    IF \A i \in 1..Len(buffer) : buffer[i] # "\n"
    THEN [buffer |-> buffer, events |-> events]
    ELSE LET newlineIdx == CHOOSE i \in 1..Len(buffer) :
                               buffer[i] = "\n" /\ \A j \in 1..(i - 1) : buffer[j] # "\n"
             line == trim(SubSeq(buffer, 1, newlineIdx - 1))
         IN  drainLines(SubSeq(buffer, newlineIdx + 1, Len(buffer)), events \o yieldOf(line))

\* The generator before its first chunk.
ParserOn(chunks) ==
    [chunks |-> chunks, read |-> 0, buffer |-> <<>>, yielded |-> <<>>, returned |-> FALSE]

(* ------------------------------------------------------------------ *)
(* Bounds and configuration                                            *)
(* ------------------------------------------------------------------ *)

\* Events one agent invocation emits at most.
MaxEvents == 3
\* Clock ticks (one tick is half a session TTL, the sweep interval).
MaxTime == 3
\* Events one agent invocation emits at most, in the specification of the whole server.
MaxSpecEvents == 2
\* Requests the server takes in one run.
MaxRequests == 2
\* config.sessionTtlMs, in clock ticks.
sessionTtlMs == 2

(* ------------------------------------------------------------------ *)
(* State                                                               *)
(* ------------------------------------------------------------------ *)

VARIABLES
    now,              \* Date.now(), in ticks
    sessions,         \* session.ts: the sessions map, hash -> SessionEntry
    dirty,            \* session.ts: dirty
    pc,               \* the request in hand: "idle", "reading" (for await), "done";
                      \* "down" when the server process has ended
    request,          \* the parsed body: messages and stream
    spawn,            \* the arguments spawnClaude was called with, if it was
    lookups,          \* the contexts lookupSession was called with for this request
    assistantContent, \* handler local
    resultSessionId,  \* handler local
    finishReason,     \* handler local (non-streaming)
    usage,            \* handler local
    stderr,           \* stderr.output
    seen,             \* the events the loop has taken so far
    destroyed,        \* res.destroyed
    response,         \* what was written to res
    history,          \* the caller's conversation: last request plus its reply
    stored,           \* per context: the last storeSession call, whether a sweep expired it,
                      \* and the directory the agent of the storing request ran in
    served,           \* requests taken so far
    child,            \* the ChildProcess: running or not, its killed flag, the signals sent
    timeout,          \* spawnClaude's timeout timer: "none", "armed", "fired", "cleared"
    killTimer,        \* the 5 s timer set when the timeout fires: "none", "armed", "fired"
    persistPath,      \* session.ts: persistPath is set (SESSION_FILE was given)
    file,             \* the session file on disk: how it got its text, and the text
    persistence,      \* the table the last successful writeFileSync wrote, and what
                      \* the last initSessionPersistence found: "restored" or "empty"
    probe,            \* two message lists handed to hashMessages
    keys,             \* per list, the digests hashMessages returned for it, in order
    inflight,         \* the other requests in flight, each between its lookup and its store
    closing,          \* shutdown() has run: the server takes no new connection
    parser            \* parseStreamLines: the chunks of the agent's stdout, how many were
                      \* read, the buffer, the events yielded, and whether it returned

vars == <<now, sessions, dirty, pc, request, spawn, lookups, assistantContent,
          resultSessionId, finishReason, usage, stderr, seen, destroyed, response,
          history, stored, served, child, timeout, killTimer, persistPath, file, persistence,
          probe, keys, parser, inflight, closing>>

storeVars == <<now, sessions, dirty, stored>>
procVars == <<child, timeout, killTimer>>
connVars == <<inflight, closing>>
diskVars == <<persistPath, file, persistence>>
hashVars == <<probe, keys>>
handlerVars == <<request, spawn, lookups, assistantContent, resultSessionId, finishReason,
                 usage, stderr, seen, destroyed, response>>

(* ------------------------------------------------------------------ *)
(* Agent arguments (claude-cli.ts, buildPrompt and spawnClaude)        *)
(* ------------------------------------------------------------------ *)

DataImage == "data:image/"
Base64Mark == ";base64,"
\* saveBase64Image(dataUrl): the path of the file written (its name is a random UUID),
\* empty when the URL does not match data:image/<ext>;base64,<data>.
saveBase64Image(url) ==
    IF Len(url) >= 4 /\ url[1] = DataImage /\ url[3] = Base64Mark THEN <<"{tmpfile}">> ELSE <<>>

\* What one part adds to the text: its text, or a note about its image, or nothing.
partText(p) ==
    IF p.type = "text" /\ p.text # <<>> THEN <<p.text>>
    ELSE IF p.type = "image_url" /\ p.url # <<>>
    THEN IF startsWith(p.url, <<DataImage>>)
         THEN IF saveBase64Image(p.url) # <<>>
              THEN <<<<"[", "i", "m", "a", "g", "e", " ", "a", "t", ":", " ">>
                        \o saveBase64Image(p.url) \o <<"]">>>>
              ELSE <<>>
         ELSE <<<<"[", "i", "m", "a", "g", "e", ":", " ">> \o p.url \o <<"]">>>>
    ELSE <<>>

RECURSIVE partTexts(_)
partTexts(ps) == IF ps = <<>> THEN <<>> ELSE partText(Head(ps)) \o partTexts(Tail(ps))

getTextContentWithImages(content) ==
    IF content.kind = "string" THEN content.text
    ELSE join(partTexts(content.parts), <<"\n">>)

\* `${label}: ${text}`
labelled(msg) ==
    (IF msg.role = "user" THEN <<"U", "s", "e", "r">>
     ELSE <<"A", "s", "s", "i", "s", "t", "a", "n", "t">>)
        \o <<":", " ">> \o getTextContentWithImages(msg.content)

\* Variant: every turn is rendered, whatever the session. C29 does not hold of it.
buildPromptOfAll(messages, hasSession) ==
    LET nonSystemMessages == SelectSeq(messages, NotSystem)
    IN  join([i \in 1..Len(nonSystemMessages) |-> labelled(nonSystemMessages[i])],
             <<"\n", "\n">>)
buildPrompt(messages, hasSession) ==
    LET lastMessage == messages[Len(messages)]
        nonSystemMessages == SelectSeq(messages, NotSystem)
    IN  IF hasSession THEN getTextContentWithImages(lastMessage.content)
        ELSE IF Len(messages) = 1 THEN getTextContentWithImages(lastMessage.content)
        ELSE IF Len(nonSystemMessages) = 1
        THEN getTextContentWithImages(nonSystemMessages[1].content)
        ELSE join([i \in 1..Len(nonSystemMessages) |-> labelled(nonSystemMessages[i])],
                  <<"\n", "\n">>)

\* if (sessionId) args.push("--resume", sessionId)
resumeArg(sessionId) == IF sessionId # NoSession /\ sessionId # "" THEN sessionId ELSE NoSession

\* messages.find((m) => m.role === "system"), and its text after --system-prompt
systemPromptArg(messages) ==
    LET systems == SelectSeq(messages, IsSystem)
    IN  IF systems = <<>> THEN NULL ELSE getTextContent(systems[1].content)

\* prompt, resume, systemPrompt: the values after -p, --resume and --system-prompt
\* (NoSession, NULL: the flag is not passed).
NoSpawn == [spawned |-> FALSE, messages |-> <<>>, sessionId |-> NoSession,
            workingDir |-> NULL, cwd |-> NULL,
            prompt |-> <<>>, resume |-> NoSession, systemPrompt |-> NULL]
NoRequest == [messages |-> <<>>, stream |-> FALSE]
\* started: the process was launched; alive: it has not exited; killed: child.killed;
\* calls: the signals child.kill was called with; signals: those delivered.
\* wrote: everything the process has written to its stderr pipe.
NoChild ==
    [started |-> FALSE, alive |-> FALSE, killed |-> FALSE, calls |-> <<>>, signals |-> <<>>,
     wrote |-> <<>>]
RunningChild ==
    [started |-> TRUE, alive |-> TRUE, killed |-> FALSE, calls |-> <<>>, signals |-> <<>>,
     wrote |-> <<>>]

\* Variant: a kill that sends nothing. C16 does not hold of it.
killNothing(c, signal) == c
\* child.kill(signal): the signal is delivered and child.killed set if the process
\* still runs; otherwise nothing is sent and the flag stays as it is.
kill(c, signal) ==
    IF c.alive
    THEN [c EXCEPT !.killed = TRUE, !.calls = Append(@, signal), !.signals = Append(@, signal)]
    ELSE [c EXCEPT !.calls = Append(@, signal)]

\* No session file yet (SESSION_FILE unset, nothing on disk).
NoFile == [kind |-> "missing", text |-> <<>>]

InitServer ==
    /\ now = 0
    /\ sessions = EmptyMap
    /\ dirty = FALSE
    /\ pc = "idle"
    /\ request = NoRequest
    /\ spawn = NoSpawn
    /\ lookups = <<>>
    /\ assistantContent = <<>>
    /\ resultSessionId = NoSession
    /\ finishReason = "stop"
    /\ usage = ZeroUsage
    /\ stderr = <<>>
    /\ seen = <<>>
    /\ destroyed = FALSE
    /\ response = NoResponse
    /\ history = <<>>
    /\ stored = EmptyMap
    /\ served = 0
    /\ child = NoChild
    /\ timeout = "none"
    /\ killTimer = "none"
    /\ persistPath = FALSE
    /\ file = NoFile
    /\ persistence = [table |-> EmptyMap, loaded |-> "none"]
    /\ keys = <<<<>>, <<>>>>
    /\ inflight = EmptyMap
    /\ closing = FALSE

Init ==
    /\ InitServer
    /\ probe = <<<<>>, <<>>>>
    /\ parser = ParserOn(<<>>)

(* ------------------------------------------------------------------ *)
(* handleChatCompletions, up to the first await of the event loop      *)
(* ------------------------------------------------------------------ *)

\* Variant: a synthetic stream without the role chunk. C12 does not hold of it.
sendFakeResponseNoRole(content, stream) ==
    IF stream
    THEN [status |-> 200, body |-> {},
          chunks |-> <<ContentChunk(content), StopChunk({}), DoneFrame>>,
          ended |-> TRUE]
    ELSE [status |-> 200, body |-> {Completion(content, "stop", {})},
          chunks |-> <<>>, ended |-> TRUE]
\* sendFakeResponse(res, ..., content, stream)
sendFakeResponse(content, stream) ==
    IF stream
    THEN [status |-> 200, body |-> {},
          chunks |-> <<RoleChunk, ContentChunk(content), StopChunk({}), DoneFrame>>,
          ended |-> TRUE]
    ELSE [status |-> 200, body |-> {Completion(content, "stop", {})},
          chunks |-> <<>>, ended |-> TRUE]

\* cwd = workingDir || config.claudeWorkingDir
cwdOf(workingDir) == IF workingDir # NULL THEN workingDir ELSE claudeWorkingDir

\* server.ts: the catch around handleChatCompletions, headers not yet sent.
InternalServerError ==
    [status |-> 500, body |-> {[error |-> "Internal server error"]}, chunks |-> <<>>,
     ended |-> TRUE]

\* lookupSession, spawnClaude and the head of handleStreaming / handleNonStreaming.
\* outcome is what spawn() does: "ok", "throws" (the call throws) or "error" (the
\* process never starts and the child emits "error").
StartAgent(claudeMessages, workingDir, stream, outcome) ==
    LET contextMessages == butLast(claudeMessages)
        sessionId == lookupSession(sessions, contextMessages)
    IN  /\ lookups' = <<contextMessages>>
        /\ sessions' = sessionsAfterLookup(sessions, contextMessages, now)
        /\ killTimer' = "none"
        /\ IF outcome = "throws"
           THEN /\ spawn' = NoSpawn
                /\ response' = InternalServerError
                /\ pc' = "done"
                /\ child' = NoChild
                /\ timeout' = "none"
           ELSE /\ spawn' = [spawned |-> TRUE, messages |-> claudeMessages,
                             sessionId |-> sessionId,
                             workingDir |-> workingDir, cwd |-> cwdOf(workingDir),
                             prompt |-> buildPrompt(claudeMessages, sessionId # NoSession),
                             resume |-> resumeArg(sessionId),
                             systemPrompt |-> systemPromptArg(claudeMessages)]
                /\ response' = IF stream
                               THEN [NoResponse EXCEPT !.status = 200, !.chunks = <<RoleChunk>>]
                               ELSE NoResponse
                /\ pc' = "reading"
                /\ child' = IF outcome = "ok" THEN RunningChild ELSE NoChild
                /\ timeout' = "armed"

ReceiveWith(messages, stream, outcome) ==
    /\ pc = "idle"
    /\ served < MaxRequests
    /\ served' = served + 1
    /\ messages # <<>>
    /\ request' = [messages |-> messages, stream |-> stream]
    /\ assistantContent' = <<>>
    /\ resultSessionId' = NoSession
    /\ finishReason' = "stop"
    /\ usage' = ZeroUsage
    /\ stderr' = <<>>
    /\ seen' = <<>>
    /\ destroyed' = FALSE
    /\ LET path == confirmedPath(messages)
       IN  IF path = NULL
           THEN IF hasRealAssistantResponse(messages)
                THEN StartAgent(messages, NULL, stream, outcome)
                ELSE /\ response' = sendFakeResponse(fakeContent(messages), stream)
                     /\ sessions' = sessions
                     /\ spawn' = NoSpawn
                     /\ lookups' = <<>>
                     /\ pc' = "done"
                     /\ child' = NoChild
                     /\ timeout' = "none"
                     /\ killTimer' = "none"
           ELSE StartAgent(strippedMessages(messages), path, stream, outcome)
    /\ UNCHANGED <<connVars, diskVars, hashVars, parser, now, dirty, stored, history>>

\* A request on a host where the agent binary starts.
Receive(messages, stream) == ReceiveWith(messages, stream, "ok")

(* ------------------------------------------------------------------ *)
(* The event loop and what follows it                                  *)
(* ------------------------------------------------------------------ *)

\* "Store session mapping": storeSession(fullContext, resultSessionId)
StoreResult(content) ==
    IF resultSessionId # NoSession
    THEN LET fullContext == spawn.messages \o <<Assistant(content)>>
         IN  /\ sessions' = storeSession(sessions, fullContext, resultSessionId, now)
             /\ dirty' = TRUE
             /\ stored' = [c \in DOMAIN stored \cup {fullContext} |->
                              IF c = fullContext
                              THEN [sessionId |-> resultSessionId, swept |-> FALSE,
                                    cwd |-> spawn.cwd]
                              ELSE stored[c]]
    ELSE UNCHANGED <<sessions, dirty, stored>>

\* Variant: the frames after the loop are written without a look at res.destroyed.
\* C25 does not hold of it.
AfterLoopStreamingUnguarded(written) ==
    LET content == stderrFallback(assistantContent, stderr)
        fallback == IF content # assistantContent THEN <<ContentChunk(content)>> ELSE <<>>
        stop == IF needsStopChunk(content) THEN <<StopChunk({})>> ELSE <<>>
    IN  /\ assistantContent' = content
        /\ response' = [response EXCEPT
                            !.chunks = @ \o written \o fallback \o stop \o <<DoneFrame>>,
                            !.ended = TRUE]
        /\ StoreResult(content)
        /\ UNCHANGED <<finishReason, usage>>
\* handleStreaming after the loop.
\* written: the frames the catch block has written, if the loop threw.
AfterLoopStreamingWith(written) ==
    LET content == IF destroyed THEN assistantContent
                   ELSE stderrFallback(assistantContent, stderr)
        fallback == IF content # assistantContent THEN <<ContentChunk(content)>> ELSE <<>>
        stop == IF needsStopChunk(content) THEN <<StopChunk({})>> ELSE <<>>
    IN  /\ assistantContent' = content
        /\ response' = IF destroyed THEN response
                       ELSE [response EXCEPT
                                !.chunks = @ \o written \o fallback \o stop \o <<DoneFrame>>,
                                !.ended = TRUE]
        /\ StoreResult(content)
        /\ UNCHANGED <<finishReason, usage>>

AfterLoopStreaming == AfterLoopStreamingWith(<<>>)

\* handleNonStreaming after the loop.
AfterLoopNonStreaming ==
    LET content == stderrFallback(assistantContent, stderr)
        total == withTotal(usage)
    IN  /\ assistantContent' = content
        /\ usage' = total
        /\ response' = [status |-> 200,
                        body |-> {Completion(content, finishReason, usageBlock(total))},
                        chunks |-> <<>>, ended |-> TRUE]
        /\ StoreResult(content)
        /\ UNCHANGED finishReason

AfterLoop ==
    /\ IF request.stream THEN AfterLoopStreaming ELSE AfterLoopNonStreaming
    /\ pc' = "done"
    /\ UNCHANGED <<connVars, diskVars, hashVars, parser, procVars, now, request, spawn, lookups, resultSessionId, stderr, seen, destroyed,
                   history, served>>

\* One iteration of the streaming loop body.
StreamingStep(e) ==
    LET u == usageAfter(usage, e)
    IN  /\ usage' = IF isTextDelta(e) \/ ~isStopDelta(e) THEN u ELSE withTotal(u)
        /\ assistantContent' = contentAfterStreaming(assistantContent, e)
        /\ response' = [response EXCEPT !.chunks = @ \o chunksOfEvent(e, u)]
        /\ resultSessionId' = IF e.type = "result" THEN e.session_id ELSE resultSessionId
        /\ UNCHANGED finishReason

\* One iteration of the non-streaming loop body.
NonStreamingStep(e) ==
    /\ usage' = usageAfter(usage, e)
    /\ assistantContent' = contentAfterNonStreaming(assistantContent, e)
    /\ finishReason' = IF ~isTextDelta(e) /\ isStopDelta(e) THEN finishOf(e.stop_reason)
                       ELSE finishReason
    /\ resultSessionId' = IF e.type = "result" THEN e.session_id ELSE resultSessionId
    /\ UNCHANGED response

\* The agent writes one line; the loop takes it (or breaks: "if (res.destroyed) break").
AgentEvent(e, maxEvents) ==
    /\ pc = "reading"
    /\ Len(seen) < maxEvents
    /\ IF request.stream /\ destroyed
       THEN AfterLoop
       ELSE /\ IF request.stream THEN StreamingStep(e) ELSE NonStreamingStep(e)
            /\ seen' = Append(seen, e)
            /\ UNCHANGED <<connVars, diskVars, hashVars, parser, storeVars, procVars, pc, request, spawn, lookups, stderr, destroyed,
                           history, served>>

\* The agent's stdout closes: the loop ends.
StdoutEnd ==
    /\ pc = "reading"
    /\ AfterLoop

StreamInterrupted ==
    <<"\n", "\n", "[", "S", "t", "r", "e", "a", "m", " ", "i", "n", "t", "e", "r", "r", "u", "p", "t",
      "e", "d", "]">>
\* Variant: the catch answers with an empty completion. C21 does not hold of it.
EmptyCompletion ==
    [status |-> 200, body |-> {Completion(<<>>, "stop", {})}, chunks |-> <<>>, ended |-> TRUE]
\* handleNonStreaming's catch: 500 and { error: { message: "Claude CLI error" } }
ClaudeCliError ==
    [status |-> 500, body |-> {[error |-> "Claude CLI error"]}, chunks |-> <<>>, ended |-> TRUE]

\* The line iterator throws (the stdout stream fails): the catch blocks.
StdoutError ==
    /\ pc = "reading"
    /\ pc' = "done"
    /\ IF request.stream
       THEN AfterLoopStreamingWith(<<ContentChunk(StreamInterrupted)>>)
       ELSE /\ response' = ClaudeCliError
            /\ UNCHANGED <<sessions, dirty, stored, assistantContent, finishReason, usage>>
    /\ UNCHANGED <<connVars, diskVars, hashVars, parser, procVars, now, request, spawn, lookups, resultSessionId, stderr, seen, destroyed,
                   history, served>>

\* The agent writes to stderr and child.stderr.on("data") runs at once.
StderrData(chunk) ==
    /\ pc = "reading"
    /\ stderr = <<>>
    /\ child.wrote = <<>>
    /\ stderr' = stderr \o chunk
    /\ child' = [child EXCEPT !.wrote = @ \o chunk]
    /\ UNCHANGED <<connVars, diskVars, hashVars, parser, storeVars, timeout, killTimer, pc, request, spawn, lookups, assistantContent, resultSessionId,
                   finishReason, usage, seen, destroyed, response, history, served>>

\* The agent writes to its stderr pipe; the handler has not been told yet.
StderrWritten(chunk) ==
    /\ pc = "reading"
    /\ child.alive
    /\ child.wrote = <<>>
    /\ child' = [child EXCEPT !.wrote = @ \o chunk]
    /\ UNCHANGED <<connVars, diskVars, hashVars, parser, storeVars, timeout, killTimer, pc,
                   handlerVars, history, served>>

\* child.stderr.on("data") for what is waiting in the pipe: stderr.output += chunk.toString().
\* Nothing orders it with the events of stdout; the handler listens for neither the
\* end of stderr nor the close of the child.
StderrArrives ==
    /\ pc = "reading"
    /\ Len(stderr) < Len(child.wrote)
    /\ stderr' = child.wrote
    /\ UNCHANGED <<connVars, diskVars, hashVars, parser, storeVars, procVars, pc, request, spawn,
                   lookups, assistantContent, resultSessionId, finishReason, usage, seen,
                   destroyed, response, history, served>>

\* The caller closes the connection.  Only handleStreaming listens: its onClose
\* runs before the stream has finished and calls child.kill("SIGTERM").
ClientClose ==
    /\ pc = "reading"
    /\ ~destroyed
    /\ destroyed' = TRUE
    /\ child' = IF request.stream THEN kill(child, "SIGTERM") ELSE child
    /\ UNCHANGED <<connVars, diskVars, hashVars, parser, storeVars, timeout, killTimer, pc, request, spawn, lookups, assistantContent,
                   resultSessionId, finishReason, usage, stderr, seen, response, history, served>>

\* setTimeout(..., config.claudeTimeoutMs) fires.
TimeoutFires ==
    /\ timeout = "armed"
    /\ timeout' = "fired"
    /\ child' = kill(child, "SIGTERM")
    /\ killTimer' = "armed"
    /\ UNCHANGED <<connVars, diskVars, hashVars, parser, storeVars, pc, handlerVars, history, served>>

\* setTimeout(() => { if (!child.killed) child.kill("SIGKILL"); }, 5000) fires.
KillTimerFires ==
    /\ killTimer = "armed"
    /\ killTimer' = "fired"
    /\ child' = IF ~child.killed THEN kill(child, "SIGKILL") ELSE child
    /\ UNCHANGED <<connVars, diskVars, hashVars, parser, storeVars, timeout, pc, handlerVars, history, served>>

\* The process exits: child.on("exit") clears the timeout.
ChildExit ==
    /\ child.alive
    /\ child' = [child EXCEPT !.alive = FALSE]
    /\ timeout' = IF timeout = "armed" THEN "cleared" ELSE timeout
    /\ UNCHANGED <<connVars, diskVars, hashVars, parser, storeVars, killTimer, pc, handlerVars, history, served>>

\* hashMessages(messages), called on the i-th list of the pair.
Hash(i) ==
    /\ Len(keys[i]) < 2
    /\ keys' = [keys EXCEPT ![i] = Append(@, hashMessages(probe[i]))]
    /\ UNCHANGED <<connVars, storeVars, procVars, diskVars, pc, handlerVars, history, served, probe,
                   parser>>

\* for await (const chunk of stdout): the next chunk; buffer += chunk.toString(),
\* then every complete line of the buffer.
ReadChunk ==
    /\ ~parser.returned
    /\ parser.read < Len(parser.chunks)
    /\ LET chunk == parser.chunks[parser.read + 1]
           drained == drainLines(parser.buffer \o toString(chunk), parser.yielded)
       IN  parser' = [parser EXCEPT !.read = @ + 1,
                                    !.buffer = drained.buffer,
                                    !.yielded = drained.events]
    /\ UNCHANGED <<connVars, storeVars, procVars, diskVars, hashVars, pc, handlerVars, history, served>>

\* stdout has ended: "Process any remaining data in buffer", and the generator returns.
StdoutDrained ==
    /\ ~parser.returned
    /\ parser.read = Len(parser.chunks)
    /\ parser.chunks # <<>>
    /\ parser' = [parser EXCEPT !.yielded = @ \o yieldOf(trim(parser.buffer)),
                                !.returned = TRUE]
    /\ UNCHANGED <<connVars, storeVars, procVars, diskVars, hashVars, pc, handlerVars, history, served>>

(* ------------------------------------------------------------------ *)
(* The caller                                                          *)
(* ------------------------------------------------------------------ *)

RECURSIVE contentOfChunks(_)
contentOfChunks(chunks) ==
    IF chunks = <<>> THEN <<>>
    ELSE (IF Head(chunks).delta = "content" THEN Head(chunks).content ELSE <<>>)
             \o contentOfChunks(Tail(chunks))

\* The assistant text the caller got.
replyText ==
    IF request.stream THEN contentOfChunks(response.chunks)
    ELSE (CHOOSE b \in response.body : TRUE).content

\* The caller takes the reply and appends it to its conversation; the handler has
\* returned and its locals are gone, the child and its timers with them.
Deliver ==
    /\ pc = "done"
    /\ pc' = "idle"
    /\ history' = IF response.ended /\ ~destroyed
                  THEN request.messages \o <<Assistant(replyText)>> ELSE <<>>
    /\ child' = NoChild
    /\ timeout' = "none"
    /\ killTimer' = "none"
    /\ request' = NoRequest
    /\ spawn' = NoSpawn
    /\ lookups' = <<>>
    /\ assistantContent' = <<>>
    /\ resultSessionId' = NoSession
    /\ finishReason' = "stop"
    /\ usage' = ZeroUsage
    /\ stderr' = <<>>
    /\ seen' = <<>>
    /\ destroyed' = FALSE
    /\ response' = NoResponse
    /\ UNCHANGED <<connVars, diskVars, hashVars, parser, storeVars, served>>

(* ------------------------------------------------------------------ *)
(* Timers                                                              *)
(* ------------------------------------------------------------------ *)

\* Timer callbacks run between the steps of a handler; they are taken here between
\* requests, where they meet every state of the store a request can find or leave.
Tick ==
    /\ pc = "idle"
    /\ now < MaxTime
    /\ now' = now + 1
    /\ UNCHANGED <<connVars, diskVars, hashVars, parser, sessions, dirty, stored, procVars, pc, handlerVars, history, served>>

\* startSessionCleanup: setInterval(() => cleanupSessions(ttlMs), ttlMs / 2)
Cleanup ==
    /\ pc = "idle"
    /\ sessions' = cleanupSessions(sessions, sessionTtlMs, now)
    /\ dirty' = dirtyAfterCleanup(dirty, sessions, sessions')
    /\ stored' = [c \in DOMAIN stored |->
                     IF hashMessages(c) \in DOMAIN sessions
                        /\ hashMessages(c) \notin DOMAIN sessions'
                     THEN [stored[c] EXCEPT !.swept = TRUE]
                     ELSE stored[c]]
    /\ UNCHANGED <<connVars, diskVars, hashVars, parser, now, procVars, pc, handlerVars, history, served>>

(* ------------------------------------------------------------------ *)
(* Persistence                                                         *)
(* ------------------------------------------------------------------ *)

WriteOutcomes == {"ok", "denied", "partial"}

\* flushSessions()
flushSessions(outcome, n) ==
    IF ~persistPath THEN UNCHANGED <<file, dirty, persistence>>
    ELSE /\ file' = writeFileSync(file, stringifyTable(sessions), outcome, n)
         /\ dirty' = dirtyAfterFlush(dirty, outcome)
         /\ persistence' = IF outcome = "ok" THEN [persistence EXCEPT !.table = sessions]
                           ELSE persistence

\* persistTimer: setInterval(() => { if (dirty) flushSessions(); }, 30_000)
FlushTick(outcome, n) ==
    /\ pc = "idle"
    /\ persistPath
    /\ ~closing
    /\ n < Len(stringifyTable(sessions))
    /\ IF dirty THEN flushSessions(outcome, n) ELSE UNCHANGED <<file, dirty, persistence>>
    /\ UNCHANGED <<connVars, now, sessions, stored, persistPath, procVars, hashVars, parser, pc, handlerVars,
                   history, served>>

\* SIGTERM or SIGINT: shutdown() calls shutdownSessions(), the server closes and the
\* process exits.  What its memory held stays in the variables, out of reach.
Shutdown(outcome, n) ==
    /\ pc = "idle"
    /\ pc' = "down"
    /\ n < Len(stringifyTable(sessions))
    /\ IF dirty THEN flushSessions(outcome, n) ELSE UNCHANGED <<file, dirty, persistence>>
    /\ UNCHANGED <<connVars, now, sessions, stored, persistPath, procVars, hashVars, parser, handlerVars,
                   history, served>>

\* The process ends without running shutdown() (SIGKILL, power loss).
Crash ==
    /\ pc = "idle"
    /\ pc' = "down"
    /\ UNCHANGED <<connVars, storeVars, diskVars, procVars, hashVars, parser, handlerVars, history, served>>

\* index.ts at start: a new process with an empty map; initSessionPersistence if
\* SESSION_FILE is set.
Restart(configured) ==
    /\ pc = "down"
    /\ pc' = "idle"
    /\ persistPath' = configured
    /\ sessions' = IF configured THEN restoreSessions(EmptyMap, file) ELSE EmptyMap
    /\ dirty' = FALSE
    /\ persistence' = [persistence EXCEPT
                          !.loaded = IF ~configured THEN "none"
                                     ELSE IF file.kind # "missing" /\ parseTable(file.text).ok
                                          THEN "restored" ELSE "empty"]
    /\ inflight' = EmptyMap
    /\ closing' = FALSE
    /\ UNCHANGED <<now, stored, file, procVars, hashVars, parser, handlerVars, history, served>>

(* ------------------------------------------------------------------ *)
(* Requests in flight together (server.ts: one handler call per        *)
(* connection; each runs until its next await, then another may run)   *)
(* ------------------------------------------------------------------ *)

\* handleChatCompletions up to its first await: the lookup and the launch.
Accept(r, messages) ==
    /\ pc # "down"
    /\ ~closing
    /\ r \notin DOMAIN inflight
    /\ messages # <<>>
    /\ inflight' = [h \in DOMAIN inflight \cup {r} |->
                       IF h = r
                       THEN [messages |-> messages,
                             sessionId |-> lookupSession(sessions, butLast(messages)),
                             assistantContent |-> <<>>,
                             resultSessionId |-> NoSession]
                       ELSE inflight[h]]
    /\ sessions' = sessionsAfterLookup(sessions, butLast(messages), now)
    /\ UNCHANGED <<now, dirty, stored, closing, procVars, diskVars, hashVars, parser, pc,
                   handlerVars, history, served>>

\* One turn of the handler's event loop: a text delta, or the result event.
Progress(r, e) ==
    /\ pc # "down"
    /\ r \in DOMAIN inflight
    /\ inflight[r].resultSessionId = NoSession
    /\ inflight' = [inflight EXCEPT ![r] =
                       IF e.type = "result"
                       THEN [@ EXCEPT !.resultSessionId = e.session_id]
                       ELSE [@ EXCEPT !.assistantContent = @ \o e.text]]
    /\ UNCHANGED <<storeVars, closing, procVars, diskVars, hashVars, parser, pc, handlerVars,
                   history, served>>

\* The loop has ended: "Store session mapping", and the handler returns.
Complete(r) ==
    /\ pc # "down"
    /\ r \in DOMAIN inflight
    /\ inflight[r].resultSessionId # NoSession
    /\ LET fullContext == inflight[r].messages \o <<Assistant(inflight[r].assistantContent)>>
       IN  /\ sessions' = storeSession(sessions, fullContext, inflight[r].resultSessionId, now)
           /\ dirty' = TRUE
           /\ stored' = [c \in DOMAIN stored \cup {fullContext} |->
                            IF c = fullContext
                            THEN [sessionId |-> inflight[r].resultSessionId, swept |-> FALSE,
                                  cwd |-> claudeWorkingDir]
                            ELSE stored[c]]
    /\ inflight' = [h \in DOMAIN inflight \ {r} |-> inflight[h]]
    /\ UNCHANGED <<now, closing, procVars, diskVars, hashVars, parser, pc, handlerVars,
                   history, served>>

\* SIGTERM or SIGINT with requests in flight: shutdown() runs shutdownSessions(), which
\* clears the flush timer and flushes a dirty table, and asks the server to close.
ShutdownSignal(outcome, n) ==
    /\ pc # "down"
    /\ n < Len(stringifyTable(sessions))
    /\ closing' = TRUE
    /\ IF dirty THEN flushSessions(outcome, n) ELSE UNCHANGED <<file, dirty, persistence>>
    /\ UNCHANGED <<now, sessions, stored, inflight, persistPath, procVars, hashVars, parser, pc,
                   handlerVars, history, served>>

\* server.close's callback: the last connection has ended; process.exit(0).
ServerClosed ==
    /\ closing
    /\ pc = "idle"
    /\ inflight = EmptyMap
    /\ pc' = "down"
    /\ UNCHANGED <<storeVars, connVars, diskVars, procVars, hashVars, parser, handlerVars,
                   history, served>>

\* Date.now() moves on while requests are in flight.
Elapse ==
    /\ pc # "down"
    /\ now < MaxTime
    /\ now' = now + 1
    /\ UNCHANGED <<sessions, dirty, stored, connVars, procVars, diskVars, hashVars, parser, pc,
                   handlerVars, history, served>>

(* ------------------------------------------------------------------ *)
(* Specifications                                                      *)
(* ------------------------------------------------------------------ *)

Hi == <<"h", "i">>
Ok == <<"o", "k">>

\* Session ids the agent issues, one per invocation.
SessionIds == <<"S1", "S2", "S3", "S4">>
freshSessionId == SessionIds[served]

(* The server with one caller: a conversation is started from a history the  *)
(* caller already holds (a conversation held elsewhere, or one whose working *)
(* directory was confirmed) or carried on from the last reply.               *)
SeedHistories ==
    {<<User(Hi), Assistant(Ok)>>, <<User(TmpDir), Assistant(PATH_CONFIRMED(TmpDir))>>}
SpecTexts == {Hi}
\* The agent answers with text and then one result, its last line, that carries a new
\* session id or, when it was resumed, the id it was resumed with.
SpecEvents ==
    {TextDelta(<<"a">>)}
        \cup {ResultEvent(sid, FALSE, <<>>) : sid \in {freshSessionId, spawn.sessionId} \ {NoSession}}

Next ==
    \/ \E base \in ({history} \ {<<>>}) \cup SeedHistories, text \in SpecTexts, stream \in BOOLEAN :
           Receive(base \o <<User(text)>>, stream)
    \/ pc = "reading" /\ resultSessionId = NoSession
           /\ \E e \in SpecEvents : AgentEvent(e, MaxSpecEvents)
    \/ StdoutEnd
    \/ Deliver
    \/ Tick
    \/ Cleanup

Spec == Init /\ [][Next]_vars

(* The working-directory gate alone: one request with any message list; the  *)
(* agent, when spawned, reports its session and exits.                       *)
MaxGateMessages == 3
GateUsers ==
    { User(Hi),
      User(<<" ">> \o TmpDir \o <<" ">>),
      Msg("user", Parts(<<TextPart(LinkPath)>>)),
      User(<<"/", "n">>),
      User(DevxDir) }
GateAssistants ==
    { Assistant(Ok),
      Assistant(PATH_PROMPT),
      Assistant(<<CheckMark, "d", "o", "n", "e">>) }
GatePool == GateUsers \cup GateAssistants \cup {System(<<"s">>)}
\* Every short list, every conversation of two exchanges, and every exchange that
\* follows a user message and a system message.
GateLists ==
    UNION {[1..n -> GatePool] : n \in 1..MaxGateMessages}
        \cup {<<u1, a1, u2, a2>> : u1 \in GateUsers, a1 \in GateAssistants,
                                    u2 \in GateUsers, a2 \in GateAssistants}
        \cup {<<u1, System(<<"s">>), u2, a2>> : u1 \in GateUsers, u2 \in GateUsers,
                                                a2 \in GateAssistants}
GateEvents == {ResultEvent("S1", FALSE, <<>>)}

NextGate ==
    \/ \E messages \in GateLists, stream \in BOOLEAN : Receive(messages, stream)
    \/ \E e \in GateEvents : AgentEvent(e, 1)
    \/ StdoutEnd

SpecGate == Init /\ [][NextGate]_vars

(* The stream translator alone: one request that reaches the agent, any      *)
(* event stream, stderr output and (streaming) a caller that disconnects.    *)
StreamRequest == <<User(Hi), Assistant(Ok), User(Hi)>>
\* A request the gate answers itself, with a synthetic stream.
SyntheticRequest == <<User(TmpDir)>>
StreamEvents ==
    { MessageStart(10, 1),
      MessageDelta("end_turn", 3),
      MessageDelta("max_tokens", 0),
      MessageDelta("tool_use", 7),
      MessageDelta(NoStop, 5),
      TextDelta(<<"H">>),
      TextDelta(<<"i">>),
      TextDelta(<<>>),
      JsonDelta(<<"j">>),
      BlockStop,
      ResultEvent("S1", FALSE, <<>>),
      ResultEvent("S1", TRUE, <<"x">>),
      SystemEvent,
      AssistantEvent(<<"z">>) }
StderrChunks == {<<" ", "d", "e", "n", "i", "e", "d", "\n">>}

NextStream ==
    \/ \E messages \in {StreamRequest, SyntheticRequest}, stream \in BOOLEAN :
           Receive(messages, stream)
    \/ \E e \in StreamEvents : AgentEvent(e, MaxEvents)
    \/ \E chunk \in StderrChunks : StderrData(chunk)
    \/ ClientClose
    \/ StdoutEnd

SpecStream == Init /\ [][NextStream]_vars

(* The agent process alone: one request, a launch that may fail, the timeout *)
(* and its 5 s follow-up, a caller that disconnects, a process that exits    *)
(* when it pleases.                                                          *)
SpawnOutcomes == {"ok", "throws", "error"}
\* signal occurs in the sequence.
Sent(signals, signal) == \E i \in 1..Len(signals) : signals[i] = signal
ProcessEvents == {TextDelta(<<"H">>), ResultEvent("S1", FALSE, <<>>)}

NextProcess ==
    \/ \E stream \in BOOLEAN, outcome \in SpawnOutcomes :
           ReceiveWith(StreamRequest, stream, outcome)
    \/ child.started /\ \E e \in ProcessEvents : AgentEvent(e, MaxEvents)
    \/ child.started /\ \E chunk \in StderrChunks : StderrData(chunk)
    \/ StdoutEnd
    \/ StdoutError
    \/ ClientClose
    \/ TimeoutFires
    \/ KillTimerFires
    \/ ChildExit

SpecProcess == Init /\ [][NextProcess]_vars

\* A process that is told to terminate does so in the end and its stdout closes.
SpecProcessFair == SpecProcess /\ WF_vars(StdoutEnd)

\* What the timers and the operating system guarantee, and no more: an armed timer
\* fires, a process that got SIGKILL dies, the stdout of a dead or never started
\* process closes.  The agent itself need not exit, nor heed SIGTERM.
SpecProcessTimeout ==
    /\ SpecProcess
    /\ WF_vars(TimeoutFires)
    /\ WF_vars(KillTimerFires)
    /\ WF_vars(Sent(child.signals, "SIGKILL") /\ ChildExit)
    /\ WF_vars(~child.alive /\ StdoutEnd)

(* The store and its file: conversations that leave sessions behind, the    *)
(* sweep, the flush timer with writes that fail, and processes that end and  *)
(* start again with or without SESSION_FILE.                                 *)
PersistEvents == {ResultEvent(freshSessionId, FALSE, <<>>)}
Truncations == 0..(2 * MaxRequests)

NextPersist ==
    \/ \E base \in ({history} \ {<<>>}) \cup {<<User(Hi), Assistant(Ok)>>} :
           Receive(base \o <<User(Hi)>>, FALSE)
    \/ pc = "reading" /\ \E e \in PersistEvents : AgentEvent(e, 1)
    \/ StdoutEnd
    \/ Deliver
    \/ Tick
    \/ Cleanup
    \/ \E outcome \in WriteOutcomes, n \in Truncations : FlushTick(outcome, n)
    \/ \E outcome \in WriteOutcomes, n \in Truncations : Shutdown(outcome, n)
    \/ Crash
    \/ \E configured \in BOOLEAN : Restart(configured)

SpecPersist == Init /\ [][NextPersist]_vars

(* hashMessages alone: two message lists, each hashed up to twice.           *)
MaxHashMessages == 2
TextA == <<"a">>
TextB == <<"b", "\"">>
HashPool ==
    { User(TextA),
      Assistant(TextA),
      User(TextA \o <<"\n">> \o TextB),
      Msg("user", Parts(<<TextPart(TextA), TextPart(TextB)>>)),
      Msg("user", Parts(<<TextPart(TextB), TextPart(TextA)>>)) }
HashLists == UNION {[1..n -> HashPool] : n \in 0..MaxHashMessages}

InitHash ==
    /\ InitServer
    /\ probe \in HashLists \X HashLists
    /\ parser = ParserOn(<<>>)

NextHash == \E i \in 1..2 : Hash(i)

SpecHash == InitHash /\ [][NextHash]_vars

(* The arguments of the agent: requests of any shape, system messages at any *)
(* place, each conversation carried on for one more turn.                    *)
BeBrief == <<"{be brief}">>
BeKind == <<"{be kind}">>
PromptPool ==
    { System(BeBrief),
      System(BeKind),
      User(Hi),
      Assistant(Ok),
      Msg("user", Parts(<<TextPart(<<"a">>), ImagePart(<<"u">>)>>)) }
MaxPromptMessages == 3
\* A directory exchange, confirmed: the handler takes the pair out before the launch.
Confirmed == <<User(TmpDir), Assistant(PATH_CONFIRMED(TmpDir))>>
PromptLists ==
    UNION {[1..n -> PromptPool] : n \in 1..MaxPromptMessages}
        \cup {<<m>> \o Confirmed : m \in PromptPool}
PromptEvents == {ResultEvent(freshSessionId, FALSE, <<>>)}

NextPrompt ==
    \/ \E messages \in PromptLists : history = <<>> /\ Receive(messages, FALSE)
    \/ \E last \in {User(Hi), System(BeKind)} :
           history # <<>> /\ Receive(history \o <<last>>, FALSE)
    \/ pc = "reading" /\ \E e \in PromptEvents : AgentEvent(e, 1)
    \/ StdoutEnd
    \/ Deliver

SpecPrompt == Init /\ [][NextPrompt]_vars

(* A confirmed directory exchange for every kind of path text: plain, with ".." *)
(* segments, with "~", a symbolic link, blocked, missing, not absolute.         *)
PathTexts ==
    { TmpDir,
      ProcDir,
      TmpDir \o <<"/", ".", ".">> \o ProcDir,
      ProcDir \o <<"/", ".", ".">> \o TmpDir,
      <<"~">>,
      <<"~", "/", ".", ".">> \o ProcDir,
      LinkPath,
      ProcLink,
      DevxDir,
      FilePath,
      <<"/", "n">>,
      <<"t">> }
NextPaths ==
    \/ \E text \in PathTexts, stream \in BOOLEAN :
           Receive(<<User(text), Assistant(PATH_CONFIRMED(text)), User(Hi)>>, stream)
    \/ pc = "reading" /\ resultSessionId = NoSession
           /\ \E e \in SpecEvents : AgentEvent(e, MaxSpecEvents)
    \/ StdoutEnd
    \/ Deliver

SpecPaths == Init /\ [][NextPaths]_vars

(* The two pipes of the agent, each with its own events.                     *)
NextStderr ==
    \/ \E stream \in BOOLEAN : Receive(StreamRequest, stream)
    \/ \E e \in ProcessEvents : AgentEvent(e, MaxEvents)
    \/ \E chunk \in StderrChunks : StderrWritten(chunk)
    \/ StderrArrives
    \/ StdoutEnd
    \/ Deliver

SpecStderr == Init /\ [][NextStderr]_vars

(* Conversations carried on under a directory confirmed anew, or under none. *)
DirExchanges == {<<>>} \cup {<<User(d), Assistant(PATH_CONFIRMED(d))>> : d \in {TmpDir, SrvDir}}
NextDirs ==
    \/ \E exchange \in DirExchanges, base \in {<<>>} \cup DOMAIN stored, stream \in BOOLEAN :
           Receive(exchange \o base \o <<User(Hi)>>, stream)
    \/ pc = "reading" /\ resultSessionId = NoSession
           /\ \E e \in SpecEvents : AgentEvent(e, MaxSpecEvents)
    \/ StdoutEnd
    \/ Deliver

SpecDirs == Init /\ [][NextDirs]_vars

(* Several requests in flight: the same conversation from more than one    *)
(* caller, each with its own session id from the agent.                    *)
MaxHandlers == 2
Handlers == 1..MaxHandlers
ConcurrentLists == {<<User(Hi)>>, <<User(Hi), Assistant(Ok), User(Hi)>>}
ConcurrentEvents ==
    {[type |-> "text", text |-> Ok, session_id |-> NoSession]}
        \cup {[type |-> "result", text |-> <<>>, session_id |-> SessionIds[r]] : r \in 1..2}

NextConcurrent ==
    \/ \E r \in Handlers, messages \in ConcurrentLists : Accept(r, messages)
    \/ \E r \in Handlers, e \in ConcurrentEvents :
           r \in DOMAIN inflight /\ Len(inflight[r].assistantContent) < Len(Ok) /\ Progress(r, e)
    \/ \E r \in Handlers : Complete(r)
    \/ Elapse

SpecConcurrent == Init /\ [][NextConcurrent]_vars

(* A server with a session file, stopped by a signal while requests are in  *)
(* flight; every write to the file succeeds.                                *)
NextShutdown ==
    \/ ~persistPath /\ Crash
    \/ Restart(TRUE)
    \/ \E r \in Handlers : persistPath /\ Accept(r, <<User(Hi)>>)
    \/ \E r \in Handlers, e \in ConcurrentEvents :
           r \in DOMAIN inflight /\ Len(inflight[r].assistantContent) < Len(Ok) /\ Progress(r, e)
    \/ \E r \in Handlers : Complete(r)
    \/ FlushTick("ok", 0)
    \/ ShutdownSignal("ok", 0)
    \/ ServerClosed

SpecShutdown == Init /\ [][NextShutdown]_vars

(* parseStreamLines alone: the agent writes up to MaxLines lines and perhaps  *)
(* an unterminated fragment; the pipe delivers the bytes in up to MaxChunks  *)
(* chunks, cut anywhere.                                                     *)
MaxLines == 2
MaxChunks == 2
AgentLines ==
    { <<"{", "a", "}">>,
      <<"{", LeadByte, ContinuationByte, "}">>,
      <<" ", "{", "b", "}", " ">>,
      <<"x">>,
      <<>> }
RECURSIVE terminated(_)
terminated(ls) ==
    IF ls = <<>> THEN <<>> ELSE Head(ls) \o <<"\n">> \o terminated(Tail(ls))
AgentOutputs ==
    {terminated(ls) \o fragment :
        ls \in UNION {[1..n -> AgentLines] : n \in 0..MaxLines}, fragment \in AgentLines}
\* The ways a pipe may deliver the bytes: non-empty chunks, cut at the places in cuts.
RECURSIVE chunked(_, _, _)
chunked(bytes, cuts, from) ==
    IF cuts = {} THEN <<SubSeq(bytes, from, Len(bytes))>>
    ELSE LET c == CHOOSE x \in cuts : \A y \in cuts : x <= y
         IN  <<SubSeq(bytes, from, c)>> \o chunked(bytes, cuts \ {c}, c + 1)
Chunkings(bytes) ==
    {chunked(bytes, cuts, 1) :
        cuts \in {cs \in SUBSET (1..(Len(bytes) - 1)) : Cardinality(cs) < MaxChunks}}

InitLines ==
    /\ InitServer
    /\ probe = <<<<>>, <<>>>>
    /\ \E bytes \in AgentOutputs \ {<<>>} : \E chunks \in Chunkings(bytes) :
           parser = ParserOn(chunks)

NextLines == ReadChunk \/ StdoutDrained

SpecLines == InitLines /\ [][NextLines]_vars

(* ------------------------------------------------------------------ *)
(* Properties                                                          *)
(* ------------------------------------------------------------------ *)

\* A request is in hand: it was routed, and perhaps answered.
Handled == pc \in {"reading", "done"}

TextOf(m) == getTextContent(m.content)
IsUserOrAssistant(m) == m.role \in {"user", "assistant"}
\* The user/assistant-only subsequence of the request in hand.
UA == SelectSeq(request.messages, IsUserOrAssistant)

\* The existing directory a text resolves to once trimmed, NULL if there is none.
DirectoryOf(text) ==
    LET resolved == resolvePath(trim(text))
    IN  IF resolved # NULL /\ isValidDirectory(resolved) THEN resolved ELSE NULL

\* The confirmed pairs: a user turn that names a directory, an assistant turn after it.
ConfirmedPairs ==
    {i \in 1..(Len(UA) - 1) :
        /\ UA[i].role = "user"
        /\ DirectoryOf(TextOf(UA[i])) # NULL
        /\ UA[i + 1].role = "assistant"}
EarliestPair == CHOOSE i \in ConfirmedPairs : \A j \in ConfirmedPairs : i <= j

\* One of the three synthetic texts: the prompt, the rejection, a confirmation.
IsConfirmedText(t) ==
    Len(t) >= 4 /\ SubSeq(t, 1, 3) = <<CheckMark, " ", "<">> /\ t[Len(t)] = ">"
IsMarkerText(t) == t = PATH_PROMPT \/ t = PATH_INVALID \/ IsConfirmedText(t)

AssistantTexts == {TextOf(UA[i]) : i \in {j \in 1..Len(UA) : UA[j].role = "assistant"}}

\* No confirmed pair and no assistant turn other than the synthetic ones.
NewConversation ==
    ConfirmedPairs = {} /\ \A t \in AssistantTexts : IsMarkerText(t)

\* The request was answered in full without the agent.
AnsweredSynthetically ==
    /\ pc = "done"
    /\ ~spawn.spawned
    /\ response.status = 200
    /\ response.ended
    /\ IF request.stream
       THEN /\ Len(response.chunks) = 4
            /\ response.chunks = <<RoleChunk, ContentChunk(response.chunks[2].content),
                                   StopChunk({}), DoneFrame>>
            /\ response.body = {}
       ELSE /\ Cardinality(response.body) = 1
            /\ response.chunks = <<>>

\* C1 as stated: a request that extends by one user message a context a completed
\* request stored finds that request's session id, in every case.
C1_ContinuationAlways ==
    (pc = "reading" /\ Len(spawn.messages) >= 2) =>
        LET context == SubSeq(spawn.messages, 1, Len(spawn.messages) - 1)
        IN  (context \in DOMAIN stored /\ spawn.messages[Len(spawn.messages)].role = "user") =>
                /\ lookups = <<context>>
                /\ spawn.sessionId = stored[context].sessionId

\* C1 (amended): after a request with forwarded list M completed with text A and a
\* result carrying session id S (the latest such completion), a later request whose
\* forwarded list is M, an assistant message A and one new user message looks up the
\* list minus its last message and resumes the agent with S, in both modes and with a
\* confirmed pair pruned, provided no sweep has removed the entry in between.
C1_Continuation ==
    (pc = "reading" /\ Len(spawn.messages) >= 2) =>
        LET context == SubSeq(spawn.messages, 1, Len(spawn.messages) - 1)
        IN  (/\ context \in DOMAIN stored
             /\ ~stored[context].swept
             /\ spawn.messages[Len(spawn.messages)].role = "user") =>
                /\ lookups = <<context>>
                /\ spawn.sessionId = stored[context].sessionId

\* A streaming request with a pruned pair resumes the session its predecessor stored,
\* after the clock has moved.
C1_Witness ==
    /\ pc = "reading"
    /\ request.stream
    /\ now > 0
    /\ spawn.workingDir = TmpDir
    /\ Len(spawn.messages) = 3
    /\ SubSeq(spawn.messages, 1, 2) \in DOMAIN stored
    /\ spawn.sessionId = stored[SubSeq(spawn.messages, 1, 2)].sessionId
    /\ spawn.sessionId # NoSession

\* C2: a request with neither a confirmed pair nor a non-synthetic assistant turn
\* spawns no agent, neither reads nor writes the session store, and is answered with
\* exactly one of the three synthetic messages.
C2_GateClosed ==
    (Handled /\ NewConversation) =>
        /\ AnsweredSynthetically
        /\ lookups = <<>>
        /\ sessions = EmptyMap /\ ~dirty /\ stored = EmptyMap
        /\ IsMarkerText(replyText)

\* A streamed confirmation for a conversation that already holds a synthetic prompt.
C2_Witness ==
    /\ pc = "done"
    /\ request.stream
    /\ NewConversation
    /\ Len(request.messages) = 3
    /\ AssistantTexts = {PATH_PROMPT}
    /\ replyText = PATH_CONFIRMED(TmpDir)

\* C3: a request is resumed with working directory P iff its user/assistant
\* subsequence holds a user turn whose trimmed text resolves to an existing directory
\* with an assistant turn right after it; P is the directory of the earliest such pair.
C3_ResumeIffConfirmedPair ==
    Handled =>
        /\ (spawn.spawned /\ spawn.workingDir # NULL) <=> ConfirmedPairs # {}
        /\ ConfirmedPairs # {} =>
               /\ spawn.workingDir = DirectoryOf(TextOf(UA[EarliestPair]))
               /\ spawn.cwd = spawn.workingDir

\* Two confirmed pairs that name different directories: the first one is taken.
C3_Witness ==
    /\ Handled
    /\ Cardinality(ConfirmedPairs) = 2
    /\ \E i \in ConfirmedPairs : DirectoryOf(TextOf(UA[i])) = SrvDir
    /\ UA[1].content.kind = "string"
    /\ spawn.workingDir = TmpDir

\* C4 as stated: with no confirmed pair and an assistant message that is not one of
\* the three synthetic texts, the agent is spawned in the default working directory
\* with the request's list unmodified, and the lookup uses that list minus its last
\* message.
C4_UseDefault ==
    (Handled /\ ConfirmedPairs = {} /\ \E t \in AssistantTexts : ~IsMarkerText(t)) =>
        /\ spawn.spawned
        /\ spawn.workingDir = NULL
        /\ spawn.cwd = claudeWorkingDir
        /\ spawn.messages = request.messages
        /\ lookups = <<SubSeq(request.messages, 1, Len(request.messages) - 1)>>

\* The text of the newest user message, trimmed; empty if there is none.
NewestUserText ==
    LET users == {i \in 1..Len(UA) : UA[i].role = "user"}
    IN  IF users = {} THEN <<>>
        ELSE trim(TextOf(UA[CHOOSE i \in users : \A j \in users : j <= i]))

IsPathShaped(t) == startsWith(t, <<"~">>) \/ startsWith(t, <<"/">>)

\* C5 as stated: in a new conversation the newest user message decides the reply:
\* the confirmation if its text resolves to an existing directory, the rejection if
\* it is path-shaped but does not, the prompt otherwise.
C5_NewestUserDecides ==
    (Handled /\ NewConversation) =>
        /\ AnsweredSynthetically
        /\ replyText =
               IF DirectoryOf(NewestUserText) # NULL
               THEN PATH_CONFIRMED(DirectoryOf(NewestUserText))
               ELSE IF IsPathShaped(NewestUserText) THEN PATH_INVALID
               ELSE PATH_PROMPT

\* The contexts a caller may ask for: every prefix of a list at hand.
Prefixes(list) == {SubSeq(list, 1, n) : n \in 0..Len(list)}
ProbeContexts == Prefixes(request.messages) \cup Prefixes(history)

\* C6: lookup(C) returns the id of the last store(C, S), whatever was stored for other
\* contexts since, unless a sweep expired the entry; lookup on the empty context or
\* on a context never stored returns none.
C6_StoreThenLookup ==
    /\ \A c \in DOMAIN stored :
           ~stored[c].swept => lookupSession(sessions, c) = stored[c].sessionId
    /\ lookupSession(sessions, <<>>) = NoSession
    /\ \A c \in ProbeContexts :
           c \notin DOMAIN stored => lookupSession(sessions, c) = NoSession

\* Two contexts stored one after the other under different ids, both still found,
\* next to contexts that were never stored.
C6_Witness ==
    /\ \E c1, c2 \in DOMAIN stored :
           /\ c1 # c2
           /\ stored[c1].sessionId = "S1" /\ stored[c2].sessionId = "S2"
           /\ ~stored[c1].swept /\ ~stored[c2].swept
           /\ lookupSession(sessions, c1) = "S1"
    /\ \E c \in ProbeContexts : c # <<>> /\ c \notin DOMAIN stored

\* C7: a sweep removes exactly the entries whose age, now minus createdAt, is greater
\* than the TTL, and leaves every other entry as it was, one of age TTL included.
C7_SweepExact ==
    [][Cleanup =>
          sessions' = [k \in {h \in DOMAIN sessions : now - sessions[h].createdAt <= sessionTtlMs}
                          |-> sessions[k]]]_vars

\* A sweep has removed one entry while another, of age exactly TTL, is still there.
C7_Witness ==
    /\ \E c \in DOMAIN stored : stored[c].swept /\ hashMessages(c) \notin DOMAIN sessions
    /\ \E k \in DOMAIN sessions : now - sessions[k].createdAt = sessionTtlMs

\* The agent was run for a non-streaming request and its answer was sent.
NonStreamingDone ==
    /\ pc = "done"
    /\ ~request.stream
    /\ spawn.spawned
    /\ response.ended
    /\ Cardinality(response.body) = 1
Body == CHOOSE b \in response.body : TRUE

\* The text fragments of the text-delta events, concatenated in event order.
RECURSIVE textFragments(_)
textFragments(events) ==
    IF events = <<>> THEN <<>>
    ELSE LET e == Head(events)
         IN  (IF e.type = "stream_event" /\ e.etype = "content_block_delta"
                  /\ e.dtype = "text_delta"
              THEN e.text ELSE <<>>) \o textFragments(Tail(events))

HasErrorResult == \E i \in 1..Len(seen) : seen[i].type = "result" /\ seen[i].is_error

\* C8: in non-streaming mode, with no error result and at least one fragment, the
\* returned content is the concatenation in event order of the text fragments of the
\* text-delta events; no other event changes it.
C8_ContentIsConcatenation ==
    (NonStreamingDone /\ ~HasErrorResult /\ textFragments(seen) # <<>>) =>
        Body.content = textFragments(seen)

\* Two fragments with an event of another kind between them.
C8_Witness ==
    /\ NonStreamingDone
    /\ seen = <<TextDelta(<<"H">>), AssistantEvent(<<"z">>), TextDelta(<<"i">>)>>
    /\ Body.content = <<"H", "i">>

\* The last stop reason a message_delta carried, NoStop if none did.
RECURSIVE lastStopReason(_)
lastStopReason(events) ==
    IF events = <<>> THEN NoStop
    ELSE LET e == events[Len(events)]
         IN  IF e.type = "stream_event" /\ e.etype = "message_delta" /\ e.stop_reason # NoStop
             THEN e.stop_reason
             ELSE lastStopReason(SubSeq(events, 1, Len(events) - 1))

\* C9: in non-streaming mode the finish reason is "stop" when no message_delta
\* carried a stop reason or the last one carried is end_turn, "length" otherwise.
C9_FinishReason ==
    NonStreamingDone =>
        Body.finish_reason =
            IF lastStopReason(seen) \in {NoStop, "end_turn"} THEN "stop" ELSE "length"

\* end_turn, then a stop reason that is neither end_turn nor max_tokens.
C9_Witness ==
    /\ NonStreamingDone
    /\ Len(seen) >= 2
    /\ seen[1] = MessageDelta("end_turn", 3)
    /\ lastStopReason(seen) = "tool_use"
    /\ Body.finish_reason = "length"

\* prompt_tokens: the sum of input_tokens over the message_start events.
RECURSIVE promptTokens(_)
promptTokens(events) ==
    IF events = <<>> THEN 0
    ELSE LET e == Head(events)
         IN  (IF e.type = "stream_event" /\ e.etype = "message_start"
              THEN e.input_tokens ELSE 0) + promptTokens(Tail(events))

\* completion_tokens: message_start adds, a non-zero message_delta overwrites.
RECURSIVE completionTokens(_)
completionTokens(events) ==
    IF events = <<>> THEN 0
    ELSE LET e == events[Len(events)]
             before == completionTokens(SubSeq(events, 1, Len(events) - 1))
         IN  IF e.type = "stream_event" /\ e.etype = "message_start"
             THEN before + e.output_tokens
             ELSE IF e.type = "stream_event" /\ e.etype = "message_delta" /\ e.output_tokens # 0
             THEN e.output_tokens
             ELSE before

\* The usage block due after these events: none when the total is 0.
usageDue(events) ==
    LET p == promptTokens(events)
        c == completionTokens(events)
    IN  IF p + c > 0
        THEN {[prompt_tokens |-> p, completion_tokens |-> c, total_tokens |-> p + c]}
        ELSE {}

\* What each stop-reason event of the stream owes its chunk, in event order.
RECURSIVE usagesDue(_)
usagesDue(events) ==
    IF events = <<>> THEN <<>>
    ELSE LET e == events[Len(events)]
             before == usagesDue(SubSeq(events, 1, Len(events) - 1))
         IN  IF e.type = "stream_event" /\ e.etype = "message_delta" /\ e.stop_reason # NoStop
             THEN Append(before, usageDue(events))
             ELSE before

IsFinishChunk(chunk) == chunk.delta = "empty"
usagesSent(chunks) ==
    LET finish == SelectSeq(chunks, IsFinishChunk)
    IN  [i \in 1..Len(finish) |-> finish[i].usage]

\* C10: every usage block sent, in the body or in a chunk, has total = prompt +
\* completion > 0, prompt the sum of input_tokens of the message_start events so far,
\* completion the message_start output_tokens added and overwritten by each non-zero
\* message_delta output_tokens; no block is sent when the total is 0.
C10_UsageAccounting ==
    /\ NonStreamingDone => Body.usage = usageDue(seen)
    /\ (pc = "reading" /\ request.stream) => usagesSent(response.chunks) = usagesDue(seen)
    /\ \A i \in 1..Len(response.chunks) : \A u \in response.chunks[i].usage :
           u.total_tokens = u.prompt_tokens + u.completion_tokens /\ u.total_tokens > 0

\* A streamed chunk that carries the usage {10, 3, 13}.
C10_Witness ==
    /\ request.stream
    /\ seen = <<MessageStart(10, 1), MessageDelta(NoStop, 5), MessageDelta("end_turn", 3)>>
    /\ \E i \in 1..Len(response.chunks) :
           response.chunks[i].usage =
               {[prompt_tokens |-> 10, completion_tokens |-> 3, total_tokens |-> 13]}

\* The agent was run for a streaming request, the caller stayed, and the handler is done.
StreamingDone ==
    /\ pc = "done"
    /\ request.stream
    /\ spawn.spawned
    /\ ~destroyed

\* The stream gave no assistant content: no text fragment, no error result text.
NoAssistantContent ==
    /\ textFragments(seen) = <<>>
    /\ \A i \in 1..Len(seen) :
           ~(seen[i].type = "result" /\ seen[i].is_error /\ seen[i].result # <<>>)

\* "Error: " and the stderr text, trimmed.
ErrorReply == <<"E", "r", "r", "o", "r", ":", " ">> \o trim(stderr)

\* The finish reason of the last frame that carries one.
RECURSIVE lastFinishReason(_)
lastFinishReason(chunks) ==
    IF chunks = <<>> THEN "null"
    ELSE IF chunks[Len(chunks)].finish_reason # "null" THEN chunks[Len(chunks)].finish_reason
    ELSE lastFinishReason(SubSeq(chunks, 1, Len(chunks) - 1))

\* C11 as stated: with no assistant content and stderr output, the content of the
\* response is "Error: " and the trimmed stderr text and the finish reason is "stop",
\* in either mode.
C11_StderrFallbackStop ==
    (spawn.spawned /\ NoAssistantContent /\ stderr # <<>>) =>
        /\ NonStreamingDone =>
               Body.content = ErrorReply /\ Body.finish_reason = "stop"
        /\ StreamingDone =>
               /\ contentOfChunks(response.chunks) = ErrorReply
               /\ lastFinishReason(response.chunks) = "stop"

\* C11 (amended): with no assistant content and stderr output, a response the caller
\* has not closed carries "Error: " and the trimmed stderr text, never an empty
\* content; its finish reason is "stop" in streaming mode and, in non-streaming mode,
\* the one the stop reasons of the stream give ("length" when the last one is not
\* end_turn).
C11_StderrFallback ==
    (spawn.spawned /\ NoAssistantContent /\ stderr # <<>>) =>
        /\ NonStreamingDone =>
               /\ Body.content = ErrorReply
               /\ Body.content # <<>>
               /\ Body.finish_reason =
                      IF lastStopReason(seen) \in {NoStop, "end_turn"} THEN "stop" ELSE "length"
        /\ StreamingDone =>
               /\ contentOfChunks(response.chunks) = ErrorReply
               /\ lastFinishReason(response.chunks) = "stop"
               /\ response.ended

\* A streamed fallback: stderr output, events but no text.
C11_Witness ==
    /\ StreamingDone
    /\ stderr # <<>>
    /\ Len(seen) = 2
    /\ NoAssistantContent
    /\ contentOfChunks(response.chunks) = <<"E", "r", "r", "o", "r", ":", " ", "d", "e", "n", "i", "e", "d">>

IsRoleChunk(chunk) == chunk.delta = "role"
IsDoneFrame(chunk) == chunk.delta = "[DONE]"

\* C12: a streaming response the caller has not closed has one role-only chunk, its
\* first frame, and one [DONE] sentinel, its last frame, and is then ended; this holds
\* of agent-backed and of synthetic streams.  Before the end no sentinel is written.
C12_StreamFraming ==
    (request.stream /\ ~destroyed /\ pc \in {"reading", "done"}) =>
        /\ response.chunks # <<>>
        /\ IsRoleChunk(response.chunks[1])
        /\ Len(SelectSeq(response.chunks, IsRoleChunk)) = 1
        /\ pc = "reading" => SelectSeq(response.chunks, IsDoneFrame) = <<>> /\ ~response.ended
        /\ pc = "done" =>
               /\ IsDoneFrame(response.chunks[Len(response.chunks)])
               /\ Len(SelectSeq(response.chunks, IsDoneFrame)) = 1
               /\ response.ended

\* A synthetic stream of role, content, stop and sentinel.
C12_Witness ==
    /\ pc = "done"
    /\ request.stream
    /\ ~spawn.spawned
    /\ Len(response.chunks) = 4
    /\ IsRoleChunk(response.chunks[1])
    /\ IsDoneFrame(response.chunks[4])

\* The aggregated content the claim describes: fragments, and after an error result
\* with text its bracketed annotation, in event order.
RECURSIVE annotatedContent(_)
annotatedContent(events) ==
    IF events = <<>> THEN <<>>
    ELSE LET e == events[Len(events)]
             before == annotatedContent(SubSeq(events, 1, Len(events) - 1))
         IN  IF e.type = "stream_event" /\ e.etype = "content_block_delta"
                /\ e.dtype = "text_delta"
             THEN before \o e.text
             ELSE IF e.type = "result" /\ e.is_error /\ e.result # <<>>
             THEN before \o <<"\n", "\n", "[", "E", "r", "r", "o", "r", ":", " ">>
                         \o e.result \o <<"]">>
             ELSE before

\* C13 as stated: in both modes an error result with text is appended to the
\* aggregated content as a bracketed annotation, after the text already there, and
\* the caller gets a normal completion with status 200.
C13_ErrorResultAppended ==
    (spawn.spawned /\ ~NoAssistantContent) =>
        /\ NonStreamingDone =>
               response.status = 200 /\ Body.content = annotatedContent(seen)
        /\ (request.stream /\ pc = "reading") =>
               response.status = 200
                   /\ contentOfChunks(response.chunks) = annotatedContent(seen)

\* C14 as stated: when the timeout fires SIGTERM is sent; if the process has still not
\* exited when the 5 s timer fires, SIGKILL is sent; SIGKILL never comes before SIGTERM.
C14_TimeoutEscalation ==
    /\ (timeout = "fired" /\ child.alive) => Sent(child.signals, "SIGTERM")
    /\ (killTimer = "fired" /\ child.alive) => Sent(child.signals, "SIGKILL")
    /\ \A i \in 1..Len(child.signals) :
           child.signals[i] = "SIGKILL" =>
               \E j \in 1..(i - 1) : child.signals[j] = "SIGTERM"

\* C15 as stated: when the caller closes the connection before the response has
\* completed, in either mode, SIGTERM is sent at once and the 5 s follow-up with
\* SIGKILL is set up as for a timeout.
C15_CancelTerminates ==
    (spawn.spawned /\ destroyed /\ child.alive) =>
        /\ Sent(child.signals, "SIGTERM")
        /\ killTimer \in {"armed", "fired"}

\* C16: when the caller disconnects in the middle of a streaming response, a
\* termination signal is issued to the agent process (delivered if it still runs),
\* and the handler returns: nothing is ended on the closed connection, no error
\* response is produced, and once the agent's stdout closes the handler is done.
C16_DisconnectSafe ==
    (request.stream /\ destroyed) =>
        /\ Sent(child.calls, "SIGTERM")
        /\ child.alive => Sent(child.signals, "SIGTERM")
        /\ response.status = 200
        /\ ~response.ended
        /\ pc \in {"reading", "done"}
SpawnFailed == pc \in {"reading", "done"} /\ lookups # <<>> /\ ~child.started

\* C17 as stated: a spawn failure, reported by the call or by the error event, fails
\* the request with a server error, never with a completion.
C17_SpawnFailureFails ==
    (SpawnFailed /\ pc = "done") => response.status = 500

FlushStep ==
    \/ \E outcome \in WriteOutcomes, n \in Truncations : FlushTick(outcome, n)
    \/ \E outcome \in WriteOutcomes, n \in Truncations : Shutdown(outcome, n)
FullTable == [kind |-> "written", text |-> stringifyTable(sessions)]

\* C19: with a session file configured, a flush tick or a shutdown writes the whole
\* table iff the store is dirty: a clean store leaves the file alone; a dirty one
\* either has the full table written and the flag cleared, or the write fails, the
\* flag stays set and the file does not hold the table as written; in every case
\* no handler state or response is touched.
C19_FlushIffDirty ==
    [][(FlushStep /\ persistPath) =>
          /\ ~dirty => (file' = file /\ ~dirty' /\ persistence' = persistence)
          /\ dirty => \/ file' = FullTable /\ ~dirty' /\ persistence'.table = sessions
                      \/ file' # FullTable /\ dirty' /\ persistence' = persistence
          /\ sessions' = sessions
          /\ handlerVars' = handlerVars]_vars
\* A write has failed half way, the flag is still set and the timer is still there.
C19_Witness ==
    /\ pc = "idle"
    /\ persistPath
    /\ dirty
    /\ file.kind = "truncated"
    /\ sessions # EmptyMap

C21_ReadFailureIs500 ==
    [][(StdoutError /\ ~request.stream) =>
          /\ response'.status = 500
          /\ response'.ended
          /\ response'.body = {[error |-> "Claude CLI error"]}
          /\ response'.chunks = <<>>
          /\ sessions' = sessions /\ dirty' = dirty /\ stored' = stored
          /\ pc' = "done"]_vars
\* The read failed after text and a result with a session id: 500, and nothing stored.
C21_Witness ==
    /\ pc = "done"
    /\ ~request.stream
    /\ response.status = 500
    /\ resultSessionId = "S1"
    /\ assistantContent = <<"H">>
    /\ sessions = EmptyMap
    /\ ~dirty

\* The positions of the frames that carry a finish reason.
FinishPositions ==
    {i \in 1..Len(response.chunks) : response.chunks[i].finish_reason # "null"}
\* An error chunk was sent: an error result with text was read.
ErrorChunkSent == \E i \in 1..Len(seen) : isErrorResult(seen[i])

\* C22 as stated: a completed streaming response has exactly one chunk with a finish
\* reason, an empty delta right before the [DONE] sentinel; it has none only when an
\* error chunk was sent.
C22_OneFinishChunk ==
    StreamingDone =>
        /\ Cardinality(FinishPositions) <= 1
        /\ FinishPositions \subseteq {Len(response.chunks) - 1}
        /\ \A i \in FinishPositions : response.chunks[i].delta = "empty"
        /\ FinishPositions = {} => ErrorChunkSent

\* What each event owes the caller as content, in event order: the fragment of a
\* text delta, the annotation of an error result with text.
RECURSIVE contentsDue(_)
contentsDue(events) ==
    IF events = <<>> THEN <<>>
    ELSE LET e == Head(events)
         IN  (IF e.type = "stream_event" /\ e.etype = "content_block_delta"
                  /\ e.dtype = "text_delta" /\ e.text # <<>>
              THEN <<e.text>>
              ELSE IF e.type = "result" /\ e.is_error /\ e.result # <<>>
              THEN <<<<"\n", "\n", "[", "E", "r", "r", "o", "r", ":", " ">> \o e.result \o <<"]">>>>
              ELSE <<>>) \o contentsDue(Tail(events))
IsContentChunk(chunk) == chunk.delta = "content"
contentsSent(chunks) ==
    LET content == SelectSeq(chunks, IsContentChunk)
    IN  [i \in 1..Len(content) |-> content[i].content]

\* C23 as stated: within a streaming request the content chunks come in the order of
\* the events that caused them, and no content chunk (fragment, error annotation or
\* stderr fallback) is written after a chunk that carries a finish reason.
C23_ContentBeforeFinish ==
    (request.stream /\ spawn.spawned /\ pc \in {"reading", "done"}) =>
        /\ pc = "reading" => contentsSent(response.chunks) = contentsDue(seen)
        /\ \A i \in 1..Len(response.chunks), j \in 1..Len(response.chunks) :
               (i < j /\ response.chunks[i].finish_reason # "null") =>
                   ~IsContentChunk(response.chunks[j])

\* The position in the request's list of the k-th user/assistant message.
PositionOf(k) ==
    CHOOSE i \in 1..Len(request.messages) :
        /\ IsUserOrAssistant(request.messages[i])
        /\ Cardinality({j \in 1..i : IsUserOrAssistant(request.messages[j])}) = k
\* The list without the messages at the positions in skip, the others in their order.
RECURSIVE Without(_, _, _)
Without(list, skip, i) ==
    IF i > Len(list) THEN <<>>
    ELSE (IF i \in skip THEN <<>> ELSE <<list[i]>>) \o Without(list, skip, i + 1)
PairRemoved ==
    Without(request.messages, {PositionOf(EarliestPair), PositionOf(EarliestPair + 1)}, 1)

\* C24 as stated: on Resume the list forwarded to the agent and used for the session
\* lookup is the request's list without the two messages of the confirmed pair, every
\* other message, system messages included, kept once and in its original order.
C24_OnlyPairRemoved ==
    (Handled /\ ConfirmedPairs # {}) =>
        /\ spawn.spawned
        /\ spawn.messages = PairRemoved
        /\ lookups = <<SubSeq(PairRemoved, 1, Len(PairRemoved) - 1)>>

\* C25: once the caller's connection is closed during a streaming response, nothing
\* more is written to it: no content, error or fallback chunk, no stop chunk, no
\* [DONE] sentinel, and it is not ended, whether the loop breaks, ends or throws.
C25_NothingAfterClose ==
    [][(request.stream /\ destroyed /\ request' = request) =>
          /\ response'.chunks = response.chunks
          /\ response'.ended = response.ended
          /\ response'.status = response.status]_vars
\* The caller left before any text; stderr had output, the handler is done, and the
\* fallback, the stop chunk and the sentinel were not written.
C25_Witness ==
    /\ pc = "done"
    /\ request.stream
    /\ destroyed
    /\ stderr # <<>>
    /\ assistantContent = <<>>
    /\ response.chunks = <<RoleChunk>>
    /\ ~response.ended

\* C26 as stated: after the caller's disconnect has sent the termination signal, a
\* firing of the invocation timeout does nothing: no further signal reaches the
\* process and the response is unchanged.
C26_TimeoutAfterCancelNoOp ==
    [][(TimeoutFires /\ request.stream /\ destroyed /\ Sent(child.signals, "SIGTERM")) =>
          /\ child'.signals = child.signals
          /\ response' = response]_vars

\* C27 as stated: every request for which an agent process was started completes its
\* response in the end (the body sent, or the sentinel written and the stream ended,
\* unless the caller has left), even when the agent never exits on its own and
\* ignores SIGTERM.
C27_RequestCompletes ==
    (child.started /\ pc = "reading") ~> (pc = "done" /\ (destroyed \/ response.ended))

\* The agent's stdout as a whole, decoded.
RECURSIVE concat(_)
concat(chunks) == IF chunks = <<>> THEN <<>> ELSE Head(chunks) \o concat(Tail(chunks))
OutputText == toString(concat(parser.chunks))
\* The events of the lines of a text: of each piece between newlines, the last,
\* unterminated one included, that is not blank and parses, in order.
RECURSIVE eventsOf(_)
eventsOf(pieces) ==
    IF pieces = <<>> THEN <<>>
    ELSE LET line == trim(Head(pieces))
         IN  (IF line # <<>> /\ parseLine(line).ok THEN <<parseLine(line).value>> ELSE <<>>)
                 \o eventsOf(Tail(pieces))

\* C28 as stated: the parser yields exactly the events of the non-blank, parseable
\* lines of the agent's stdout, in line order, skipping malformed lines, with the
\* unterminated fragment at the end taken as a last line if it parses.
C28_LinesParsed ==
    parser.returned => parser.yielded = eventsOf(split(OutputText, "\n"))

\* The text of a message as the prompt carries it.
PromptText(m) == getTextContentWithImages(m.content)
NonSystem == SelectSeq(spawn.messages, NotSystem)
\* "<Role>: <text>" for every non-system turn, in order, with a blank line between.
RECURSIVE Rendered(_)
Rendered(turns) ==
    IF turns = <<>> THEN <<>>
    ELSE (IF Head(turns).role = "user" THEN <<"U", "s", "e", "r", ":", " ">>
          ELSE <<"A", "s", "s", "i", "s", "t", "a", "n", "t", ":", " ">>)
             \o PromptText(Head(turns))
             \o (IF Len(turns) > 1 THEN <<"\n", "\n">> ELSE <<>>)
             \o Rendered(Tail(turns))

\* C29: the prompt is the text of the last message when a session is resumed or the
\* list has one message, the text of the only non-system message when one remains,
\* and otherwise every non-system turn as "<Role>: <text>" in order, joined by blank
\* lines; --resume with the session id is passed exactly when the lookup found one.
C29_PromptConstruction ==
    spawn.spawned =>
        /\ spawn.prompt =
               IF spawn.sessionId # NoSession \/ Len(spawn.messages) = 1
               THEN PromptText(spawn.messages[Len(spawn.messages)])
               ELSE IF Len(NonSystem) = 1 THEN PromptText(NonSystem[1])
               ELSE Rendered(NonSystem)
        /\ spawn.resume = spawn.sessionId
        /\ spawn.sessionId = lookupSession(sessions, lookups[1])
\* A resumed conversation of several turns with a system message: the prompt is the
\* new user text alone and --resume carries the id the first request stored.
C29_Witness ==
    /\ pc = "reading"
    /\ Len(spawn.messages) = 5
    /\ spawn.messages[1].role = "system"
    /\ spawn.sessionId = "S1"
    /\ spawn.resume = "S1"
    /\ spawn.prompt = Hi

\* The texts of the system messages handed to the agent's launcher.
SystemTexts ==
    {getTextContent(spawn.messages[i].content) :
        i \in {j \in 1..Len(spawn.messages) : spawn.messages[j].role = "system"}}

\* C30: every system message of the list is passed after --system-prompt and its
\* text occurs nowhere in the prompt, whatever the shape of the list.
C30_SystemKeptApart ==
    spawn.spawned =>
        \A text \in SystemTexts :
            /\ spawn.systemPrompt # NULL
            /\ includes(spawn.systemPrompt, text)
            /\ ~includes(spawn.prompt, text)

\* A step in which the handler looks a context up (the launch of the agent).
LookupStep == lookups = <<>> /\ lookups' # <<>>
\* C31: the lookup leaves the table, every entry's session id and timestamp, and
\* the dirty flag as they were, whether the context is empty, stored or unknown.
C31_LookupReadOnly ==
    [][LookupStep => (sessions' = sessions /\ dirty' = dirty)]_vars
\* A lookup that found a stored session, made after the clock has moved on, with
\* the entry still carrying the time of its store.
C31_Witness ==
    /\ pc = "reading"
    /\ lookups # <<>>
    /\ spawn.sessionId # NoSession
    /\ hashMessages(lookups[1]) \in DOMAIN sessions
    /\ sessions[hashMessages(lookups[1])].createdAt < now

\* The digest handler r writes to when it completes.
DigestOf(r) == hashMessages(inflight[r].messages \o <<Assistant(inflight[r].assistantContent)>>)
\* Handler r runs its store in this step.
Stores(r) ==
    /\ r \in DOMAIN inflight
    /\ inflight[r].resultSessionId # NoSession
    /\ r \notin DOMAIN inflight'
\* C32: whatever the interleaving of the requests in flight, a store leaves its digest
\* holding the session id and the time of that store, whole, and leaves the entry of
\* every other digest as it was.
C32_LastWriterWins ==
    [][\A r \in Handlers :
          Stores(r) =>
              /\ DOMAIN sessions' = DOMAIN sessions \cup {DigestOf(r)}
              /\ sessions'[DigestOf(r)] =
                     [sessionId |-> inflight[r].resultSessionId, createdAt |-> now]
              /\ \A k \in DOMAIN sessions \ {DigestOf(r)} : sessions'[k] = sessions[k]]_vars
\* Two requests wrote the same digest at different times with different session ids,
\* and the entry holds the second writer's id and time while another digest is stored.
C32_Witness ==
    /\ inflight = EmptyMap
    /\ \E k \in DOMAIN sessions :
          /\ sessions[k] = [sessionId |-> "S2", createdAt |-> 2]
          /\ \E c \in DOMAIN stored : hashMessages(c) = k
    /\ Cardinality(DOMAIN sessions) = 2

\* C33: a session a request resumes was stored by a request whose agent ran in the
\* same directory as this request's agent does.
C33_ResumeSameDirectory ==
    (spawn.spawned /\ spawn.sessionId # NoSession) =>
        \E c \in DOMAIN stored :
            /\ stored[c].sessionId = spawn.sessionId
            /\ stored[c].cwd = spawn.cwd

\* C34: a session a request resumes comes from an entry no older than the session TTL
\* at the time of the lookup.
C34_NoExpiredResume ==
    (pc = "reading" /\ spawn.spawned /\ spawn.sessionId # NoSession) =>
        now - sessions[hashMessages(lookups[1])].createdAt <= sessionTtlMs

\* What the parser yields when the whole output arrives as one chunk.
YieldedInOneChunk ==
    LET drained == drainLines(toString(concat(parser.chunks)), <<>>)
    IN  drained.events \o yieldOf(trim(drained.buffer))
\* C35: however the output is cut into chunks, the parser yields the events it yields
\* for the output in one piece, in the same order.
C35_ChunkingIndependent ==
    parser.returned => parser.yielded = YieldedInOneChunk

\* The assistant text each loop has built after a sequence of events.
RECURSIVE streamedContent(_)
streamedContent(events) ==
    IF events = <<>> THEN <<>>
    ELSE contentAfterStreaming(streamedContent(SubSeq(events, 1, Len(events) - 1)),
                               events[Len(events)])
RECURSIVE collectedContent(_)
collectedContent(events) ==
    IF events = <<>> THEN <<>>
    ELSE contentAfterNonStreaming(collectedContent(SubSeq(events, 1, Len(events) - 1)),
                                  events[Len(events)])
\* What the other mode answers and stores for the events and stderr of this request.
OtherModeContent ==
    IF request.stream THEN stderrFallback(collectedContent(seen), stderr)
    ELSE stderrFallback(streamedContent(seen), stderr)
\* A request the agent answered, the caller still connected.
Answered == pc = "done" /\ spawn.spawned /\ ~destroyed /\ response.ended

\* C36: for the same events and stderr, the text the caller gets and the assistant
\* turn of the stored context are the same in both modes.
C36_ModesAgree ==
    Answered =>
        /\ replyText = OtherModeContent
        /\ assistantContent = OtherModeContent

\* The table a start of the server would find in the backing file: what the last
\* successful write left there, nothing if there is no file or it does not parse.
SavedTable == restoreSessions(EmptyMap, file)
\* C37: with persistence configured, a clean flag means the backing file holds the
\* in-memory table, and every step of the running server that changes the table
\* leaves the flag set.
C37_DirtyFlag ==
    /\ []((persistPath /\ pc # "down" /\ ~dirty) => sessions = SavedTable)
    /\ [][(persistPath /\ pc # "down" /\ sessions' # sessions) => dirty']_vars
\* A clean store after a store, a sweep that removed an entry and a flush that
\* succeeded: the file holds the one session that is left.
C37_Witness ==
    /\ persistPath
    /\ pc = "idle"
    /\ ~dirty
    /\ sessions # EmptyMap
    /\ file = FullTable
    /\ \E c \in DOMAIN stored : stored[c].swept

\* C38: the directory the agent is started in after a confirmed exchange is under none
\* of the disallowed prefixes, whatever the path text was.
C38_NeverDisallowedDir ==
    (spawn.spawned /\ spawn.workingDir # NULL) =>
        \A prefix \in blockedPrefixes : ~startsWith(spawn.workingDir, prefix)

\* C39: when the server has exited through shutdown(), the backing file holds every
\* session of the table, with its id and timestamp.
C39_AllSessionsSaved ==
    (persistPath /\ closing /\ pc = "down") =>
        \A hash \in DOMAIN sessions :
            hash \in DOMAIN SavedTable /\ SavedTable[hash] = sessions[hash]

\* C40: when the loop over stdout has ended and the fallback rule is applied, the
\* handler's stderr buffer holds all the agent wrote to stderr, and the caller sees
\* stderr text only as the fallback's "Error: ..." content.
C40_StderrInFull ==
    (pc = "done" /\ spawn.spawned) =>
        /\ stderr = child.wrote
        /\ (includes(replyText, trim(child.wrote)) /\ child.wrote # <<>>) =>
               replyText = ErrorPrefix \o trim(stderr)

====
